---------------------------- MODULE Spec2Model ----------------------------
(***************************************************************************)
(* A model of the URL phishing detector's decision pipeline:               *)
(*   backend/app/ml/model.py     PhishingDetector (whitelist, brand check, *)
(*                               diagnostics, scoring, escalation, mock)   *)
(*   backend/app/ml/features.py  FeatureExtractor                          *)
(*                                                                         *)
(* Conventions.                                                            *)
(*  - Python strings are TLA+ strings; TLC evaluates Len, SubSeq and \o on *)
(*    them, so every string function below works on the actual text.       *)
(*  - An optional Python value is a sequence: <<>> is None, <<v>> is v.    *)
(*  - A float is an integer number of thousandths (0.65 is 650).           *)
(***************************************************************************)
EXTENDS Integers, Sequences, FiniteSets, TLC

None == << >>
Some(v) == << v >>

(***************************************************************************)
(* Python str operations.                                                  *)
(***************************************************************************)
CharAt(s, i) == SubSeq(s, i, i)

\* s[i:] with a 0-based Python index i
Slice(s, i) == SubSeq(s, i + 1, Len(s))

\* s.startswith(p)
StartsWith(s, p) == Len(p) <= Len(s) /\ SubSeq(s, 1, Len(p)) = p

\* s.endswith(p)
EndsWith(s, p) == Len(p) <= Len(s) /\ SubSeq(s, Len(s) - Len(p) + 1, Len(s)) = p

\* p in s
Contains(s, p) == \E i \in 0..(Len(s) - Len(p)) : SubSeq(s, i + 1, i + Len(p)) = p

\* s.count(c) for a one-character c
Count(s, c) == Cardinality({i \in 1..Len(s) : CharAt(s, i) = c})

\* the 1-based position of the first character of s, at or after position
\* from, that lies in chars; Len(s) + 1 when there is none
FindFirst(s, chars, from) ==
    IF \E i \in from..Len(s) : CharAt(s, i) \in chars
    THEN CHOOSE i \in from..Len(s) :
             /\ CharAt(s, i) \in chars
             /\ \A k \in from..(i - 1) : CharAt(s, k) \notin chars
    ELSE Len(s) + 1

UpperToLower ==
    [c \in {"A", "B", "C", "D", "E", "F", "G", "H", "I", "J", "K", "L", "M", "N",
            "O", "P", "Q", "R", "S", "T", "U", "V", "W", "X", "Y", "Z"} |->
        CASE c = "A" -> "a" [] c = "B" -> "b" [] c = "C" -> "c" [] c = "D" -> "d"
          [] c = "E" -> "e" [] c = "F" -> "f" [] c = "G" -> "g" [] c = "H" -> "h"
          [] c = "I" -> "i" [] c = "J" -> "j" [] c = "K" -> "k" [] c = "L" -> "l"
          [] c = "M" -> "m" [] c = "N" -> "n" [] c = "O" -> "o" [] c = "P" -> "p"
          [] c = "Q" -> "q" [] c = "R" -> "r" [] c = "S" -> "s" [] c = "T" -> "t"
          [] c = "U" -> "u" [] c = "V" -> "v" [] c = "W" -> "w" [] c = "X" -> "x"
          [] c = "Y" -> "y" [] c = "Z" -> "z"]

\* s.lower(), by halves so that the recursion stays shallow
RECURSIVE Lower(_)
Lower(s) ==
    IF Len(s) = 0 THEN ""
    ELSE IF Len(s) = 1
         THEN (IF s \in DOMAIN UpperToLower THEN UpperToLower[s] ELSE s)
         ELSE LET h == Len(s) \div 2
              IN  Lower(SubSeq(s, 1, h)) \o Lower(SubSeq(s, h + 1, Len(s)))

\* s.split('.')[0]
FirstLabel(s) == SubSeq(s, 1, FindFirst(s, {"."}, 1) - 1)

\* x in seq, for a Python list
InList(x, seq) == \E i \in 1..Len(seq) : seq[i] = x

Min2(a, b) == IF a <= b THEN a ELSE b
\* a seeded fault: the two values are added up
Max2_adds(a, b) == a + b

Max2(a, b) == IF a >= b THEN a ELSE b

(***************************************************************************)
(* urllib.parse.urlparse, as far as the program reads its result: the      *)
(* scheme is cut at the first ':' when everything before it is a scheme    *)
(* character, the netloc is what follows "//" up to the first of / ? #,    *)
(* and a netloc with an unmatched square bracket raises ValueError.        *)
(***************************************************************************)
Letters ==
    {"a", "b", "c", "d", "e", "f", "g", "h", "i", "j", "k", "l", "m", "n", "o", "p",
     "q", "r", "s", "t", "u", "v", "w", "x", "y", "z"} \cup DOMAIN UpperToLower
Digits == {"0", "1", "2", "3", "4", "5", "6", "7", "8", "9"}
SchemeChars == Letters \cup Digits \cup {"+", "-", "."}

\* the length of the "scheme:" prefix urlsplit removes, 0 when there is none
SchemeCut(u) ==
    LET i == FindFirst(u, {":"}, 1)
    IN  IF /\ 1 < i
           /\ i <= Len(u)
           /\ CharAt(u, 1) \in Letters
           /\ \A k \in 1..(i - 1) : CharAt(u, k) \in SchemeChars
        THEN i
        ELSE 0

AfterScheme(u) == Slice(u, SchemeCut(u))

\* urlparse(url).netloc
Netloc(u) ==
    LET rest == AfterScheme(u)
    IN  IF StartsWith(rest, "//")
        THEN SubSeq(rest, 3, FindFirst(rest, {"/", "?", "#"}, 3) - 1)
        ELSE ""

\* urlparse(url) raises ValueError("Invalid IPv6 URL")
UrlparseRaises(u) ==
    LET n == Netloc(u)
    IN  \/ Contains(n, "[") /\ ~Contains(n, "]")
        \/ Contains(n, "]") /\ ~Contains(n, "[")

(***************************************************************************)
(* model.py: the trusted-domain set and the brand table.                   *)
(***************************************************************************)
WHITELIST ==
    { "google.com", "www.google.com", "google.co.uk", "google.ca", "google.com.au",
      "google.de", "google.fr", "google.it", "google.es", "google.co.in",
      "google.co.jp", "google.com.br", "bing.com", "www.bing.com", "duckduckgo.com",
      "www.duckduckgo.com", "yahoo.com", "www.yahoo.com", "yahoo.co.jp", "github.com",
      "www.github.com", "github.io", "microsoft.com", "www.microsoft.com", "live.com",
      "office.com", "azure.com", "apple.com", "www.apple.com", "icloud.com",
      "facebook.com", "www.facebook.com", "fb.com", "messenger.com", "twitter.com",
      "x.com", "t.co", "linkedin.com", "www.linkedin.com", "instagram.com",
      "www.instagram.com", "youtube.com", "www.youtube.com", "youtu.be",
      "whatsapp.com", "www.whatsapp.com", "netflix.com", "www.netflix.com",
      "dropbox.com", "www.dropbox.com", "adobe.com", "www.adobe.com", "amazon.com",
      "www.amazon.com", "amazon.co.uk", "amazon.de", "amazon.fr", "amazon.it",
      "amazon.es", "amazon.ca", "amazon.in", "amazon.co.jp", "amazon.com.br",
      "amazon.com.mx", "amazon.com.au", "aws.amazon.com", "media-amazon.com",
      "ssl-images-amazon.com", "ebay.com", "www.ebay.com", "ebay.co.uk", "ebay.de",
      "walmart.com", "www.walmart.com", "target.com", "www.target.com", "bestbuy.com",
      "www.bestbuy.com", "aliexpress.com", "www.aliexpress.com", "etsy.com",
      "www.etsy.com", "paypal.com", "www.paypal.com", "stripe.com", "www.stripe.com",
      "chase.com", "www.chase.com", "wellsfargo.com", "www.wellsfargo.com",
      "bankofamerica.com", "www.bankofamerica.com", "americanexpress.com",
      "www.americanexpress.com", "wikipedia.org", "www.wikipedia.org", "nytimes.com",
      "www.nytimes.com", "cnn.com", "www.cnn.com", "bbc.co.uk", "www.bbc.co.uk",
      "bbc.com", "reddit.com", "www.reddit.com", "stackoverflow.com",
      "www.stackoverflow.com", "medium.com", "www.medium.com", "localhost",
      "127.0.0.1" }

TARGET_BRANDS ==
    << [brand |-> "google",
        legitimate_domains |-> << "google.com", "gmail.com", "google.co.uk",
                                  "google.de", "google.fr", "google.it", "google.es",
                                  "google.ca", "google.com.au", "google.co.in",
                                  "google.co.jp", "google.com.br" >>],
       [brand |-> "microsoft",
        legitimate_domains |-> << "microsoft.com", "office.com", "live.com",
                                  "azure.com", "outlook.com", "hotmail.com",
                                  "windows.com" >>],
       [brand |-> "apple",
        legitimate_domains |-> << "apple.com", "icloud.com", "itunes.com" >>],
       [brand |-> "amazon",
        legitimate_domains |-> << "amazon.com", "amazon.co.uk", "amazon.de",
                                  "amazon.fr", "amazon.it", "amazon.es", "amazon.ca",
                                  "amazon.in", "amazon.co.jp", "amazon.com.br",
                                  "amazon.com.mx", "amazon.com.au", "aws.amazon.com" >>],
       [brand |-> "paypal",
        legitimate_domains |-> << "paypal.com", "paypal.me" >>],
       [brand |-> "netflix",
        legitimate_domains |-> << "netflix.com" >>],
       [brand |-> "facebook",
        legitimate_domains |-> << "facebook.com", "fb.com", "messenger.com" >>],
       [brand |-> "instagram",
        legitimate_domains |-> << "instagram.com" >>],
       [brand |-> "linkedin",
        legitimate_domains |-> << "linkedin.com" >>],
       [brand |-> "twitter",
        legitimate_domains |-> << "twitter.com", "x.com", "t.co" >>],
       [brand |-> "dropbox",
        legitimate_domains |-> << "dropbox.com" >>],
       [brand |-> "adobe",
        legitimate_domains |-> << "adobe.com" >>],
       [brand |-> "chase",
        legitimate_domains |-> << "chase.com" >>],
       [brand |-> "wellsfargo",
        legitimate_domains |-> << "wellsfargo.com" >>],
       [brand |-> "bankofamerica",
        legitimate_domains |-> << "bankofamerica.com" >>],
       [brand |-> "ebay",
        legitimate_domains |-> << "ebay.com", "ebay.co.uk", "ebay.de" >>] >>

\* a seeded fault: the entry is matched as a bare suffix, without the dot
isTrusted_bare_suffix(netloc) ==
    LET domain == Lower(netloc)
    IN  \/ domain \in WHITELIST
        \/ \E trusted \in WHITELIST : EndsWith(domain, trusted)

(***************************************************************************)
(* predict, lines 173-180: the whitelist test on the netloc of the URL.    *)
(***************************************************************************)
isTrusted(netloc) ==
    LET domain == Lower(netloc)
    IN  \/ domain \in WHITELIST
        \/ \E trusted \in WHITELIST : EndsWith(domain, "." \o trusted)

(***************************************************************************)
(* Levenshtein.distance(a, b): the edit distance with unit costs, computed *)
(* row by row.  prev is row i-1 of the table, cur the part of row i built  *)
(* so far (cur[j+1] is the distance between a[:i] and b[:j]).              *)
(***************************************************************************)
RECURSIVE LevRow(_, _, _, _, _)
LevRow(a, b, i, prev, cur) ==
    LET j == Len(cur)
    IN  IF j > Len(b) THEN cur
        ELSE LET cost == IF CharAt(a, i) = CharAt(b, j) THEN 0 ELSE 1
                 v == Min2(Min2(prev[j + 1] + 1, cur[j] + 1), prev[j] + cost)
             IN  LevRow(a, b, i, prev, Append(cur, v))

RECURSIVE LevRows(_, _, _, _)
LevRows(a, b, i, prev) ==
    IF i > Len(a) THEN prev[Len(b) + 1]
    ELSE CHOOSE d \in {LevRows(a, b, i + 1, row) : row \in {LevRow(a, b, i, prev, << i >>)}} :
             TRUE

Distance(a, b) == LevRows(a, b, 1, [k \in 1..(Len(b) + 1) |-> k - 1])

(***************************************************************************)
(* _check_brand_impersonation, lines 316-352.                              *)
(***************************************************************************)
TypoMaxDistance == 2
TypoMinLength == 4

\* a seeded fault: a first label of exactly 4 characters counts as well
IsTyposquat_length_inclusive(domain, leg_domain) ==
    LET leg_base == FirstLabel(leg_domain)
        domain_base == FirstLabel(domain)
        dist == Distance(domain_base, leg_base)
    IN  dist > 0 /\ dist <= TypoMaxDistance /\ Len(domain_base) >= TypoMinLength

\* lines 342-348: the typosquatting test against one legitimate domain
IsTyposquat(domain, leg_domain) ==
    LET leg_base == FirstLabel(leg_domain)
        domain_base == FirstLabel(domain)
        dist == Distance(domain_base, leg_base)
    IN  dist > 0 /\ dist <= TypoMaxDistance /\ Len(domain_base) > TypoMinLength

\* a seeded fault: the keyword test is made on every brand before any
\* typosquatting test
RECURSIVE BrandLoop_keywords_first(_, _)
BrandLoop_keywords_first(domain, k) ==
    IF k > Len(TARGET_BRANDS)
    THEN LET typo == {j \in 1..Len(TARGET_BRANDS) :
                         /\ ~InList(domain, TARGET_BRANDS[j].legitimate_domains)
                         /\ \E i \in 1..Len(TARGET_BRANDS[j].legitimate_domains) :
                                IsTyposquat(domain, TARGET_BRANDS[j].legitimate_domains[i])}
         IN  IF typo = {} THEN None
             ELSE Some(TARGET_BRANDS[CHOOSE j \in typo : \A i \in typo : j <= i].brand)
    ELSE IF /\ ~InList(domain, TARGET_BRANDS[k].legitimate_domains)
            /\ Contains(domain, TARGET_BRANDS[k].brand)
         THEN Some(TARGET_BRANDS[k].brand)
         ELSE BrandLoop_keywords_first(domain, k + 1)

\* lines 329-348: the loop over the brand table from entry k on, returning at
\* the first brand that matches
RECURSIVE BrandLoop(_, _)
BrandLoop(domain, k) ==
    IF k > Len(TARGET_BRANDS) THEN None
    ELSE LET brand == TARGET_BRANDS[k].brand
             legitimate_domains == TARGET_BRANDS[k].legitimate_domains
         IN  IF InList(domain, legitimate_domains) THEN BrandLoop(domain, k + 1)
             ELSE IF Contains(domain, brand) THEN Some(brand)
             ELSE IF \E i \in 1..Len(legitimate_domains) :
                         IsTyposquat(domain, legitimate_domains[i])
                  THEN Some(brand)
             ELSE BrandLoop(domain, k + 1)

\* lines 319-326: the brand check on a netloc: lower-case it, strip one leading
\* "www.", and give up on an entry of the whitelist
BrandOfNetloc(netloc) ==
    LET lowered == Lower(netloc)
        domain == IF StartsWith(lowered, "www.") THEN Slice(lowered, 4) ELSE lowered
    IN  IF domain \in WHITELIST THEN None ELSE BrandLoop(domain, 1)

_check_brand_impersonation(u) ==
    IF UrlparseRaises(u) THEN None ELSE BrandOfNetloc(Netloc(u))

(***************************************************************************)
(* features.py: FeatureExtractor.  A feature value is held in thousandths. *)
(***************************************************************************)
\* n as a number of thousandths
Thousandths(n) == n * 1000

SUSPICIOUS_KEYWORDS ==
    << "login", "signin", "account", "verify", "update", "confirm", "secure",
       "banking", "paypal", "ebay", "amazon", "apple", "microsoft", "google",
       "password", "credential", "suspend" >>

URL_SHORTENERS ==
    << "bit.ly", "goo.gl", "tinyurl.com", "t.co", "ow.ly", "buff.ly", "is.gd",
       "cli.gs", "tiny.cc" >>

\* lines 38-51
feature_names ==
    << "url_length", "domain_dots", "hyphen_count", "path_depth",
       "query_param_count", "digit_ratio", "has_ip_address", "char_entropy",
       "suspicious_keywords", "is_shortened",
       "domain_age_days", "registration_length_years", "has_https", "valid_ssl",
       "cert_age_days", "subdomain_count", "high_risk_country",
       "as_reputation_score",
       "form_count", "has_password_field", "typosquatting_score",
       "gsb_threat_type", "vt_positives", "in_phishing_list", "ip_blocklisted" >>

LexicalCount == 10

FeatureNameSet == {feature_names[i] : i \in 1..Len(feature_names)}

\* urlparse(url).path: what follows the netloc, cut at the first '#', then at
\* the first '?', then at the ';' that starts the parameters of the last segment
PathAndQuery(u) ==
    LET rest == AfterScheme(u)
        tail == IF StartsWith(rest, "//")
                THEN Slice(rest, FindFirst(rest, {"/", "?", "#"}, 3) - 1)
                ELSE rest
    IN  SubSeq(tail, 1, FindFirst(tail, {"#"}, 1) - 1)

LastSlash(s) ==
    IF Contains(s, "/")
    THEN CHOOSE i \in 1..Len(s) :
             CharAt(s, i) = "/" /\ \A k \in (i + 1)..Len(s) : CharAt(s, k) # "/"
    ELSE 0

Path(u) ==
    LET pq == PathAndQuery(u)
        p == SubSeq(pq, 1, FindFirst(pq, {"?"}, 1) - 1)
    IN  SubSeq(p, 1, FindFirst(p, {";"}, LastSlash(p) + 1) - 1)

\* urlparse(url).query
Query(u) ==
    LET pq == PathAndQuery(u)
    IN  Slice(pq, Min2(FindFirst(pq, {"?"}, 1), Len(pq)))

\* line 101-102: the number of non-empty segments of path.split('/')
PathDepth(path) ==
    Cardinality({i \in 1..Len(path) :
                    CharAt(path, i) # "/" /\ (i = 1 \/ CharAt(path, i - 1) = "/")})

\* line 105: len(parse_qs(query)): the distinct names of the name=value pairs,
\* separated by '&', whose value is not empty
QueryParamCount(query) ==
    LET starts == {i \in 1..Len(query) :
                      CharAt(query, i) # "&" /\ (i = 1 \/ CharAt(query, i - 1) = "&")}
        pairEnd(i) == FindFirst(query, {"&"}, i) - 1
        eq(i) == FindFirst(query, {"="}, i)
        named == {i \in starts : eq(i) < pairEnd(i)}
    IN  Cardinality({SubSeq(query, i, eq(i) - 1) : i \in named})

\* lines 166-171, in thousandths
_digit_ratio(u) ==
    IF Len(u) = 0 THEN 0
    ELSE Thousandths(Cardinality({i \in 1..Len(u) : CharAt(u, i) \in Digits}))
             \div Len(u)

\* \d{1,3} matches the text strictly between positions p and q
DigitGroup(s, p, q) ==
    /\ q - p - 1 \in 1..3
    /\ \A k \in (p + 1)..(q - 1) : CharAt(s, k) \in Digits

HexColon ==
    Digits \cup {"a", "b", "c", "d", "e", "f", "A", "B", "C", "D", "E", "F", ":"}

IPv6RunLength == 10

\* lines 173-185: re.search of the two patterns in the netloc
_has_ip_address(domain) ==
    LET dots == {i \in 1..Len(domain) : CharAt(domain, i) = "."}
        ipv4 == \E p1 \in dots, p2 \in dots, p3 \in dots :
                    /\ p1 > 1 /\ CharAt(domain, p1 - 1) \in Digits
                    /\ DigitGroup(domain, p1, p2)
                    /\ DigitGroup(domain, p2, p3)
                    /\ p3 < Len(domain) /\ CharAt(domain, p3 + 1) \in Digits
        ipv6 == \E i \in 1..(Len(domain) - IPv6RunLength + 1) :
                    \A k \in i..(i + IPv6RunLength - 1) : CharAt(domain, k) \in HexColon
    IN  IF ipv4 \/ ipv6 THEN 1 ELSE 0

\* round(1000 * log2(k)) for k = 1..64
Log2Milli ==
    << 0, 1000, 1585, 2000, 2322, 2585, 2807, 3000, 3170, 3322, 3459, 3585, 3700,
       3807, 3907, 4000, 4087, 4170, 4248, 4322, 4392, 4459, 4524, 4585, 4644, 4700,
       4755, 4807, 4858, 4907, 4954, 5000, 5044, 5087, 5129, 5170, 5209, 5248, 5285,
       5322, 5358, 5392, 5426, 5459, 5492, 5524, 5555, 5585, 5615, 5644, 5672, 5700,
       5728, 5755, 5781, 5807, 5833, 5858, 5883, 5907, 5931, 5954, 5977, 6000 >>

RECURSIVE SumOver(_, _)
SumOver(S, f) ==
    IF S = {} THEN 0
    ELSE LET x == CHOOSE x \in S : TRUE IN f[x] + SumOver(S \ {x}, f)

\* lines 187-199: -sum(p * log2(p)) over the character frequencies, which is
\* log2(n) - sum(c * log2(c)) / n for a string of n characters; in thousandths
_shannon_entropy(s) ==
    IF Len(s) = 0 THEN 0
    ELSE LET n == Len(s)
             chars == {CharAt(s, i) : i \in 1..n}
             weighted == [c \in chars |-> Count(s, c) * Log2Milli[Count(s, c)]]
         IN  (n * Log2Milli[n] - SumOver(chars, weighted)) \div n

\* lines 201-205
_count_suspicious_keywords(u) ==
    LET url_lower == Lower(u)
    IN  Cardinality({k \in 1..Len(SUSPICIOUS_KEYWORDS) :
                        Contains(url_lower, SUSPICIOUS_KEYWORDS[k])})

\* lines 207-210
_is_shortened(domain) ==
    LET domain_lower == Lower(domain)
    IN  IF \E k \in 1..Len(URL_SHORTENERS) : Contains(domain_lower, URL_SHORTENERS[k])
        THEN 1 ELSE 0

\* lines 87-122
_extract_lexical(u) ==
    LET netloc == Netloc(u)
    IN  [url_length          |-> Thousandths(Len(u)),
         domain_dots         |-> Thousandths(Count(netloc, ".")),
         hyphen_count        |-> Thousandths(Count(u, "-")),
         path_depth          |-> Thousandths(PathDepth(Path(u))),
         query_param_count   |-> Thousandths(QueryParamCount(Query(u))),
         digit_ratio         |-> _digit_ratio(u),
         has_ip_address      |-> Thousandths(_has_ip_address(netloc)),
         char_entropy        |-> _shannon_entropy(netloc),
         suspicious_keywords |-> Thousandths(_count_suspicious_keywords(u)),
         is_shortened        |-> Thousandths(_is_shortened(netloc))]

\* lines 91-120: the keys of the dict _extract_lexical builds, in the order
\* of their insertion
LexicalOrder ==
    << "url_length", "domain_dots", "hyphen_count", "path_depth",
       "query_param_count", "digit_ratio", "has_ip_address", "char_entropy",
       "suspicious_keywords", "is_shortened" >>

\* lines 129-160: the enriched features in the order of their insertion, each
\* with the section and the field of the enrichment record it is read from
\* and the default of its .get, in thousandths
ENRICHED_FIELDS ==
    << [name |-> "domain_age_days", section |-> "whois",
        field |-> "domain_age_days", default |-> 0],
       [name |-> "registration_length_years", section |-> "whois",
        field |-> "registration_length_years", default |-> 0],
       [name |-> "has_https", section |-> "ssl", field |-> "has_https", default |-> 0],
       [name |-> "valid_ssl", section |-> "ssl", field |-> "valid_ssl", default |-> 0],
       [name |-> "cert_age_days", section |-> "ssl",
        field |-> "cert_age_days", default |-> 0],
       [name |-> "subdomain_count", section |-> "dns",
        field |-> "subdomain_count", default |-> 0],
       [name |-> "high_risk_country", section |-> "geo",
        field |-> "high_risk_country", default |-> 0],
       [name |-> "as_reputation_score", section |-> "geo",
        field |-> "as_reputation_score", default |-> 500],
       [name |-> "form_count", section |-> "content",
        field |-> "form_count", default |-> 0],
       [name |-> "has_password_field", section |-> "content",
        field |-> "has_password_field", default |-> 0],
       [name |-> "typosquatting_score", section |-> "content",
        field |-> "typosquatting_score", default |-> 0],
       [name |-> "gsb_threat_type", section |-> "google_safe_browsing",
        field |-> "threat_type_code", default |-> 0],
       [name |-> "vt_positives", section |-> "virustotal",
        field |-> "positives", default |-> 0],
       [name |-> "in_phishing_list", section |-> "blocklists",
        field |-> "in_phishing_list", default |-> 0],
       [name |-> "ip_blocklisted", section |-> "blocklists",
        field |-> "ip_blocklisted", default |-> 0] >>

EnrichedOrder == [i \in 1..Len(ENRICHED_FIELDS) |-> ENRICHED_FIELDS[i].name]

\* dict.get(key, default)
DictGet(dct, key, default) == IF key \in DOMAIN dct THEN dct[key] ELSE default

\* enrichment_data.get(section, {}): a section of the record is Some(dict), or
\* None when the record holds None under that key
SectionOf(data, section) == DictGet(data, section, Some(<< >>))

\* section.get(field, default): a field is Some(number), or None when it
\* holds a value float() does not take
FieldOf(data, e) ==
    DictGet(SectionOf(data, e.section)[1], e.field, Some(e.default))

\* lines 124-162 raise when a section is None (None has no .get) or when
\* float() is given None
_extract_enriched_raises(data) ==
    \E i \in 1..Len(ENRICHED_FIELDS) :
        \/ SectionOf(data, ENRICHED_FIELDS[i].section) = None
        \/ FieldOf(data, ENRICHED_FIELDS[i]) = None

\* lines 124-162
_extract_enriched(data) ==
    [name \in {EnrichedOrder[i] : i \in 1..Len(EnrichedOrder)} |->
        LET e == ENRICHED_FIELDS[CHOOSE i \in 1..Len(ENRICHED_FIELDS) :
                                     ENRICHED_FIELDS[i].name = name]
        IN  FieldOf(data, e)[1]]

\* line 73, `if enrichment_data:`: a record was supplied and is not empty
IsEnriched(enrichment_data) ==
    enrichment_data # None /\ DOMAIN enrichment_data[1] # {}

\* lines 76-78: the enriched features when no enrichment record is supplied
DefaultEnriched ==
    [name \in {feature_names[i] : i \in (LexicalCount + 1)..Len(feature_names)} |-> 0]

\* lines 64-85: extract_all falls into its except clause
extract_all_raises(u, enrichment_data) ==
    \/ UrlparseRaises(u)
    \/ IsEnriched(enrichment_data) /\ _extract_enriched_raises(enrichment_data[1])

\* lines 64-85: the keys of the returned dict, in the order of their insertion
extract_all_keys(u, enrichment_data) ==
    IF extract_all_raises(u, enrichment_data) THEN feature_names
    ELSE IF IsEnriched(enrichment_data) THEN LexicalOrder \o EnrichedOrder
    ELSE LexicalOrder \o SubSeq(feature_names, LexicalCount + 1, Len(feature_names))

\* a seeded fault: the except clause gives back the lexical names only
extract_all_lexical_zeros_on_error(u, enrichment_data) ==
    IF extract_all_raises(u, enrichment_data)
    THEN [name \in {LexicalOrder[i] : i \in 1..Len(LexicalOrder)} |-> 0]
    ELSE LET lexical == _extract_lexical(u)
             enriched == IF IsEnriched(enrichment_data)
                         THEN _extract_enriched(enrichment_data[1])
                         ELSE DefaultEnriched
         IN  [name \in DOMAIN lexical \cup DOMAIN enriched |->
                 IF name \in DOMAIN enriched THEN enriched[name] ELSE lexical[name]]

\* lines 64-85: the feature vector, all zeros when urlparse or the reading of
\* the enrichment record raises
extract_all(u, enrichment_data) ==
    IF extract_all_raises(u, enrichment_data)
    THEN [name \in FeatureNameSet |-> 0]
    ELSE LET lexical == _extract_lexical(u)
             enriched == IF IsEnriched(enrichment_data)
                         THEN _extract_enriched(enrichment_data[1])
                         ELSE DefaultEnriched
         IN  [name \in DOMAIN lexical \cup DOMAIN enriched |->
                 IF name \in DOMAIN enriched THEN enriched[name] ELSE lexical[name]]

(***************************************************************************)
(* model.py: PhishingDetector.                                             *)
(***************************************************************************)
\* settings.MODEL_VERSION
MODEL_VERSION == "v1.0.0"

\* line 245: a domain younger than this many days is new
NEW_DOMAIN_DAYS == 30

\* The inputs of the model.
URLS ==
    { "https://www.google.com",
      "https://www.google.com:8443/",
      "https://accounts.google.com/login",
      "http://paypal-secure-update.com",
      "http://example.org/",
      "https://example.org/news?id=7",
      "http://bit.ly/abc",
      "http://192.168.0.1/aaaaaaaaaa/bbbbbbbbbb/cccccccccc/dddddddddd/eeeeeeeeee/x.html",
      "http://[bad/x" }

\* the loaded estimators: a LogisticRegression has no feature_importances_, a
\* RandomForestClassifier has one weight per feature (train.py, lines 94, 113)
ForestImportances ==
    << 150, 50, 50, 30, 20, 100, 200, 150, 200, 50,
       0, 0, 0, 0, 0, 0, 0, 0, 0, 0, 0, 0, 0, 0, 0 >>

Models ==
    { [kind |-> "LogisticRegression", feature_importances_ |-> None],
      [kind |-> "RandomForestClassifier", feature_importances_ |-> Some(ForestImportances)] }

LoadOutcomes == {"model_missing", "model_load_fails", "scaler_load_fails", "loaded"}

\* the class a backend predicts and the probability it gives that class, in
\* thousandths: 500 + k * 500 / ProbaGrid
ProbaGrid == 2
Probabilities == {500 + (k * 500) \div ProbaGrid : k \in 0..ProbaGrid}

\* random.random() * 0.1 at line 463, in thousandths: k * 99 / JitterGrid
JitterGrid == 2
Jitters == {(k * 99) \div JitterGrid : k \in 0..JitterGrid}

\* what whois.whois does: it raises, or it answers with or without a usable
\* creation date, whose age in days is then known
WhoisOutcomes ==
    {[raises |-> TRUE, age |-> None]}
        \cup [raises : {FALSE},
              age : {None, Some(NEW_DOMAIN_DAYS - 1), Some(NEW_DOMAIN_DAYS)}]

\* what dns.resolver.resolve does for one record type: it returns an answer,
\* raises NXDOMAIN / NoAnswer (no such record), or raises because the lookup
\* itself failed (Timeout, NoNameservers, a network error)
ResolveOutcomes == {"answer", "no_record", "lookup_error"}

\* what ip-api.com answers
GeoOutcomes == {None, Some("United States US")}

\* what requests.get(url) gives _analyze_content: an exception, a status other
\* than 200, or a page with or without a password field and with a title
Pages ==
    [status : {200}, has_password_field : BOOLEAN,
     title : {"", "PayPal and Google sign in"}]
FetchOutcomes == {[status |-> 0], [status |-> 404]} \cup Pages

VARIABLES
    WHOIS_AVAILABLE, DNS_AVAILABLE, LEVENSHTEIN_AVAILABLE,
    CONTENT_ANALYSIS_AVAILABLE, ML_AVAILABLE,     \* model.py, lines 18-49, 123-130
    model, scaler,                                \* the detector's fields
    pc,                                           \* the position inside predict
    url, features, additional_info,               \* predict's arguments and locals
    verdict, confidence, top_features,
    env,                                          \* what the collaborators did
    result,                                       \* what predict returned
    call,                                         \* a function applied on its own
    _detector,                                    \* model.py, line 504: the global
    callers,                                      \* the callers inside get_detector
    constructed,                                  \* how often PhishingDetector() ran
    url_checks,                                   \* models.py, line 14: the table
    predictions,                                  \* what predict returned to check_url
    request,                                      \* the handler at work
    response                                      \* what the handler answered

flags == << WHOIS_AVAILABLE, DNS_AVAILABLE, LEVENSHTEIN_AVAILABLE,
            CONTENT_ANALYSIS_AVAILABLE, ML_AVAILABLE >>
detector == << model, scaler >>
locals == << url, features, additional_info, verdict, confidence, top_features >>
accessor == << _detector, callers, constructed >>
api == << url_checks, predictions, request, response >>
vars == << flags, detector, pc, locals, env, result, call, accessor, api >>

\* env records what happened outside predict during the current call: what
\* the lookups did, the class the backend predicted, the page that was
\* fetched, and whether the backend path raised
NoEnv ==
    [whois |-> "not_called", dns |-> "not_called", geo |-> "not_called",
     prediction |-> None, content |-> None, raised |-> FALSE]

\* additional_info.get(key)
Get(info, key) == IF key \in DOMAIN info THEN info[key] ELSE None

(***************************************************************************)
(* The helpers of predict.                                                 *)
(***************************************************************************)
\* lines 298-314: the age the WHOIS answer gives, None on any failure
_get_domain_age_days(whois) == IF whois.raises THEN None ELSE whois.age

\* lines 354-372: the DNS check, given what the resolver does for the A and
\* the MX query
_check_dns(u, a, mx) ==
    IF UrlparseRaises(u) THEN TRUE
    ELSE IF a = "answer" THEN TRUE
    ELSE IF mx = "answer" THEN TRUE
    ELSE FALSE

\* lines 426-439
_get_server_location(answer) == IF answer = None THEN "Unknown" ELSE answer[1]

\* lines 403-417: one point for every brand the title names while no
\* legitimate domain of that brand occurs in the netloc
TitleScore(u, title) ==
    LET title_lower == Lower(title)
        domain == Netloc(u)
    IN  Cardinality({k \in 1..Len(TARGET_BRANDS) :
            /\ Contains(title_lower, TARGET_BRANDS[k].brand)
            /\ ~\E i \in 1..Len(TARGET_BRANDS[k].legitimate_domains) :
                   Contains(domain, TARGET_BRANDS[k].legitimate_domains[i])})

\* lines 374-424
_analyze_content(u, fetched) ==
    IF fetched.status # 200 THEN 0
    ELSE (IF fetched.has_password_field
          THEN (IF ~StartsWith(u, "https") THEN 2 ELSE 1)
          ELSE 0)
         + (IF fetched.title # "" THEN TitleScore(u, fetched.title) ELSE 0)

\* the first position of a largest contribution in a non-empty list
FirstMax(items) ==
    CHOOSE i \in 1..Len(items) :
        /\ \A k \in 1..Len(items) : items[k].contribution <= items[i].contribution
        /\ \A k \in 1..(i - 1) : items[k].contribution < items[i].contribution

Without(items, i) == SubSeq(items, 1, i - 1) \o SubSeq(items, i + 1, Len(items))

\* items.sort(key=contribution, reverse=True)[:n]: the sort is stable
RECURSIVE TopN(_, _)
TopN(items, n) ==
    IF n = 0 \/ Len(items) = 0 THEN << >>
    ELSE LET i == FirstMax(items)
         IN  << items[i] >> \o TopN(Without(items, i), n - 1)

TOP_N == 5

\* the elements of a list whose value is positive, in order
Positive(items) ==
    LET P == {i \in 1..Len(items) : items[i].value > 0}
    IN  [k \in 1..Cardinality(P) |->
            items[CHOOSE i \in P : Cardinality({j \in P : j < i}) = k - 1]]

\* lines 486-500
_get_top_features(m, f) ==
    IF m.feature_importances_ # None
    THEN LET importances == m.feature_importances_[1]
             feature_importance_list ==
                 [i \in 1..Len(feature_names) |->
                     [name |-> feature_names[i],
                      value |-> f[feature_names[i]],
                      contribution |-> importances[i]]]
         IN  TopN(feature_importance_list, TOP_N)
    ELSE << >>

\* a seeded fault: a URL of exactly 75 characters already scores
MockScore_length_inclusive(f) ==
    (IF f["suspicious_keywords"] > 0 THEN 2 ELSE 0)
    + (IF f["is_shortened"] > 0 THEN 1 ELSE 0)
    + (IF f["has_ip_address"] > 0 THEN 3 ELSE 0)
    + (IF f["url_length"] >= Thousandths(75) THEN 1 ELSE 0)
    + (IF f["domain_dots"] > Thousandths(3) THEN 1 ELSE 0)

\* lines 443-450
MockScore(f) ==
    (IF f["suspicious_keywords"] > 0 THEN 2 ELSE 0)
    + (IF f["is_shortened"] > 0 THEN 1 ELSE 0)
    + (IF f["has_ip_address"] > 0 THEN 3 ELSE 0)
    + (IF f["url_length"] > Thousandths(75) THEN 1 ELSE 0)
    + (IF f["domain_dots"] > Thousandths(3) THEN 1 ELSE 0)

\* lines 455-463
MockVerdict(f) ==
    IF MockScore(f) >= 2 THEN "malicious"
    ELSE IF MockScore(f) >= 1 THEN "suspicious"
    ELSE "benign"

MockConfidence(f, jitter) ==
    IF MockScore(f) >= 2 THEN Min2(600 + MockScore(f) * 100, 990)
    ELSE IF MockScore(f) >= 1 THEN 650
    ELSE 850 + jitter

\* lines 441-484
_mock_predict(f, info, jitter) ==
    LET all == [i \in 1..Len(feature_names) |->
                   [name |-> feature_names[i],
                    value |-> f[feature_names[i]],
                    contribution |-> f[feature_names[i]] \div 2]]
    IN  [verdict |-> MockVerdict(f),
         confidence |-> MockConfidence(f, jitter),
         model_version |-> MODEL_VERSION \o "-mock",
         top_features |-> TopN(Positive(all), TOP_N),
         all_features |-> f,
         additional_info |-> info]

(***************************************************************************)
(* The state after the module is imported: the optional libraries are      *)
(* present or not, and no detector has loaded anything yet.                *)
(***************************************************************************)
Init ==
    /\ WHOIS_AVAILABLE \in BOOLEAN
    /\ DNS_AVAILABLE \in BOOLEAN
    /\ LEVENSHTEIN_AVAILABLE \in BOOLEAN
    /\ CONTENT_ANALYSIS_AVAILABLE \in BOOLEAN
    /\ ML_AVAILABLE \in BOOLEAN
    /\ model = None
    /\ scaler = None
    /\ pc = "load"
    /\ url = ""
    /\ features = << >>
    /\ additional_info = << >>
    /\ verdict = ""
    /\ confidence = 0
    /\ top_features = << >>
    /\ env = NoEnv
    /\ result = None
    /\ call = None
    /\ _detector = None
    /\ callers = << >>
    /\ constructed = 0
    /\ url_checks = << >>
    /\ predictions = << >>
    /\ request = None
    /\ response = None

\* lines 144-165: __init__ loads the model and the scaler; every failure leaves
\* what was not yet loaded at None
_load_model(outcome, m) ==
    /\ pc = "load"
    /\ IF ~ML_AVAILABLE \/ outcome \in {"model_missing", "model_load_fails"}
       THEN model' = None /\ scaler' = None
       ELSE IF outcome = "scaler_load_fails"
            THEN model' = Some(m) /\ scaler' = None
            ELSE model' = Some(m) /\ scaler' = Some("scaler")
    /\ pc' = "idle"
    /\ UNCHANGED << api, accessor, flags, locals, env, result, call >>

\* main.py, lines 79-93: what GET /health answers for the detector; the flag
\* looks at the model only
health_check ==
    [status |-> "healthy",
     model_loaded |-> model # None,
     model_version |-> MODEL_VERSION]

\* What the pure steps of predict compute for each input URL, tabulated once.
ParsedURL == [u \in URLS |-> ~UrlparseRaises(u)]
TrustedURL == [u \in URLS |-> ParsedURL[u] /\ isTrusted(Netloc(u))]
DomainOfURL == [u \in URLS |-> Lower(Netloc(u))]
FeaturesOfURL == [u \in URLS |-> extract_all(u, None)]
BrandOfURL == [u \in URLS |-> _check_brand_impersonation(u)]
ContentScoreOfURL ==
    [u \in URLS |-> [fetched \in FetchOutcomes |-> _analyze_content(u, fetched)]]

\* line 167: a caller invokes predict(u)
predict(u) ==
    /\ pc = "idle"
    /\ url' = u
    /\ pc' = "whitelist"
    /\ UNCHANGED << api, accessor, flags, detector, features, additional_info, verdict, confidence,
                    top_features, env, result, call >>

\* what the collaborators may do when lookups is TRUE; nothing is asked of a
\* library that is not installed. The geolocation needs requests alone, which
\* may be there while CONTENT_ANALYSIS_AVAILABLE is False for want of bs4.
WhoisChoices(lookups) ==
    IF lookups /\ WHOIS_AVAILABLE THEN WhoisOutcomes ELSE {[raises |-> TRUE, age |-> None]}
DnsAChoices(lookups) ==
    IF lookups /\ DNS_AVAILABLE THEN ResolveOutcomes ELSE {"not_called"}
DnsMxChoices(a) ==
    IF a \in {"no_record", "lookup_error"} THEN ResolveOutcomes ELSE {"not_called"}
GeoChoices(lookups) ==
    IF lookups THEN GeoOutcomes ELSE {None}

\* what the two DNS queries did, taken together
DnsOutcome(a, mx) ==
    IF a = "not_called" THEN "not_called"
    ELSE IF a = "answer" \/ mx = "answer" THEN "answer"
    ELSE IF a = "no_record" /\ mx = "no_record" THEN "no_record"
    ELSE IF a = "lookup_error" /\ mx = "lookup_error" THEN "lookup_error"
    ELSE "no_record_and_lookup_error"

Looked(whois, a, mx, geo) ==
    [env EXCEPT !.whois = IF ~WHOIS_AVAILABLE THEN "not_called"
                          ELSE IF _get_domain_age_days(whois) = None THEN "fails"
                          ELSE "answers",
                !.dns = DnsOutcome(a, mx),
                !.geo = IF geo = None THEN "fails" ELSE "answers"]

\* line 182: is_whitelisted, once lines 173-180 have run without raising
IsWhitelisted == TrustedURL[url]

\* lines 172-206: the whitelist test; a trusted netloc returns at once
predict_whitelist ==
    /\ pc = "whitelist"
    /\ IF IsWhitelisted
       THEN \E whois \in WhoisChoices(TRUE), a \in DnsAChoices(TRUE), geo \in GeoChoices(TRUE) :
              \E mx \in DnsMxChoices(a) :
                /\ result' = Some(
                      [verdict |-> "benign",
                       confidence |-> 1000,
                       model_version |-> MODEL_VERSION,
                       top_features |-> << >>,
                       all_features |-> << >>,
                       additional_info |->
                          [is_whitelisted |-> TRUE,
                           domain |-> DomainOfURL[url],
                           server_location |-> _get_server_location(geo),
                           domain_age_days |-> IF WHOIS_AVAILABLE
                                               THEN _get_domain_age_days(whois)
                                               ELSE None,
                           dns_valid |-> IF DNS_AVAILABLE
                                         THEN Some(_check_dns(url, a, mx))
                                         ELSE None,
                           is_https |-> StartsWith(url, "https")]])
                /\ env' = Looked(whois, a, mx, geo)
                /\ pc' = "done"
       ELSE /\ pc' = "extract"
            /\ UNCHANGED << env, result >>
    /\ UNCHANGED << api, accessor, flags, detector, locals, call >>

\* line 209
predict_extract ==
    /\ pc = "extract"
    /\ features' = FeaturesOfURL[url]
    /\ pc' = "diagnostics"
    /\ UNCHANGED << api, accessor, flags, detector, url, additional_info, verdict, confidence,
                    top_features, env, result, call >>

\* lines 211-227: the diagnostics; when urlparse raises they are all dropped
predict_diagnostics ==
    /\ pc = "diagnostics"
    /\ LET parsed == ParsedURL[url]
       IN  \E whois \in WhoisChoices(parsed), a \in DnsAChoices(parsed),
              geo \in GeoChoices(parsed) :
             \E mx \in DnsMxChoices(a) :
               IF parsed
               THEN /\ additional_info' =
                          [domain_age_days |-> IF WHOIS_AVAILABLE
                                               THEN _get_domain_age_days(whois)
                                               ELSE None,
                           dns_valid |-> IF DNS_AVAILABLE
                                         THEN Some(_check_dns(url, a, mx))
                                         ELSE None,
                           is_https |-> StartsWith(url, "https"),
                           impersonated_brand |-> IF LEVENSHTEIN_AVAILABLE
                                                  THEN BrandOfURL[url]
                                                  ELSE None,
                           server_location |-> _get_server_location(geo)]
                    /\ env' = Looked(whois, a, mx, geo)
               ELSE /\ additional_info' = << >>
                    /\ env' = env
    /\ pc' = "score"
    /\ UNCHANGED << api, accessor, flags, detector, url, features, verdict, confidence, top_features,
                    result, call >>

\* line 229
BackendPresent == model # None /\ scaler # None /\ ML_AVAILABLE

\* a seeded fault: a class given with a probability of one half is reported
\* as suspicious
predict_backend_three_way(prediction, probability) ==
    /\ pc = "score"
    /\ BackendPresent
    /\ verdict' = (IF probability <= 500 THEN "suspicious"
                   ELSE IF prediction = 0 THEN "benign" ELSE "malicious")
    /\ confidence' = probability
    /\ top_features' = _get_top_features(model[1], features)
    /\ env' = [env EXCEPT !.prediction = Some(prediction)]
    /\ pc' = "new_domain"
    /\ UNCHANGED << api, accessor, flags, detector, url, features, additional_info, result, call >>

\* lines 232-242: the backend's class and the probability of that class
predict_backend(prediction, probability) ==
    /\ pc = "score"
    /\ BackendPresent
    /\ verdict' = (IF prediction = 0 THEN "benign" ELSE "malicious")
    /\ confidence' = probability
    /\ top_features' = _get_top_features(model[1], features)
    /\ env' = [env EXCEPT !.prediction = Some(prediction)]
    /\ pc' = "new_domain"
    /\ UNCHANGED << api, accessor, flags, detector, url, features, additional_info, result, call >>

\* a seeded fault: a domain of exactly the threshold age counts as new
IsNewDomain_inclusive ==
    LET age == Get(additional_info, "domain_age_days")
    IN  age # None /\ age[1] <= NEW_DOMAIN_DAYS

\* line 245: the domain's age is known and below the threshold
IsNewDomain ==
    LET age == Get(additional_info, "domain_age_days")
    IN  age # None /\ age[1] < NEW_DOMAIN_DAYS

\* a seeded fault: the new-domain rule explains itself but leaves a benign
\* verdict as it was
predict_new_domain_keeps_verdict ==
    /\ pc = "new_domain"
    /\ LET age == Get(additional_info, "domain_age_days")
       IN  IF IsNewDomain /\ verdict = "benign"
           THEN /\ top_features' =
                       << [name |-> "newly_registered_domain",
                           value |-> Thousandths(age[1]),
                           contribution |-> 500] >> \o top_features
                /\ UNCHANGED << verdict, confidence >>
           ELSE UNCHANGED << verdict, confidence, top_features >>
    /\ pc' = "brand"
    /\ UNCHANGED << api, accessor, flags, detector, url, features, additional_info, env, result, call >>

\* lines 244-254
predict_new_domain ==
    /\ pc = "new_domain"
    /\ LET age == Get(additional_info, "domain_age_days")
       IN  IF IsNewDomain
           THEN IF verdict = "benign"
                THEN /\ verdict' = "suspicious"
                     /\ confidence' = 650
                     /\ top_features' =
                            << [name |-> "newly_registered_domain",
                                value |-> Thousandths(age[1]),
                                contribution |-> 500] >> \o top_features
                ELSE IF verdict = "suspicious"
                     THEN /\ verdict' = "malicious"
                          /\ confidence' = Min2(confidence + 200, 990)
                          /\ top_features' =
                                 << [name |-> "newly_registered_domain",
                                     value |-> Thousandths(age[1]),
                                     contribution |-> 800] >> \o top_features
                     ELSE UNCHANGED << verdict, confidence, top_features >>
           ELSE UNCHANGED << verdict, confidence, top_features >>
    /\ pc' = "brand"
    /\ UNCHANGED << api, accessor, flags, detector, url, features, additional_info, env, result, call >>

\* a seeded fault: the brand rule is skipped once the verdict is malicious
IsImpersonation_unless_malicious ==
    LET impersonated_brand == Get(additional_info, "impersonated_brand")
    IN  impersonated_brand # None /\ impersonated_brand[1] # "" /\ verdict # "malicious"

\* line 257: the diagnostics name an impersonated brand (None and "" are falsy)
IsImpersonation ==
    LET impersonated_brand == Get(additional_info, "impersonated_brand")
    IN  impersonated_brand # None /\ impersonated_brand[1] # ""

\* lines 256-261
predict_brand ==
    /\ pc = "brand"
    /\ LET impersonated_brand == Get(additional_info, "impersonated_brand")
       IN  IF IsImpersonation
           THEN /\ verdict' = "malicious"
                /\ confidence' = 950
                /\ top_features' =
                       << [name |-> "impersonates_" \o impersonated_brand[1],
                           value |-> Thousandths(1),
                           contribution |-> 900] >> \o top_features
           ELSE UNCHANGED << verdict, confidence, top_features >>
    /\ pc' = "dns"
    /\ UNCHANGED << api, accessor, flags, detector, url, features, additional_info, env, result, call >>

\* a seeded fault: a falsy dns_valid (None, or no diagnostics at all) counts
\* as invalid
IsInvalidDns_falsy == Get(additional_info, "dns_valid") # Some(TRUE)

\* line 264: dns_valid is False itself, neither None nor missing
IsInvalidDns == Get(additional_info, "dns_valid") = Some(FALSE)

\* a seeded fault: the DNS rule appends its explanation instead of inserting
\* it at the front
predict_dns_appends ==
    /\ pc = "dns"
    /\ IF IsInvalidDns
       THEN /\ verdict' = "malicious"
            /\ confidence' = 900
            /\ top_features' =
                   top_features \o << [name |-> "invalid_dns",
                                       value |-> Thousandths(1),
                                       contribution |-> 800] >>
       ELSE UNCHANGED << verdict, confidence, top_features >>
    /\ pc' = "content"
    /\ UNCHANGED << api, accessor, flags, detector, url, features, additional_info, env, result, call >>

\* a seeded fault: the DNS rule leaves the verdict as it was
predict_dns_keeps_verdict ==
    /\ pc = "dns"
    /\ IF IsInvalidDns
       THEN /\ confidence' = 900
            /\ top_features' =
                   << [name |-> "invalid_dns",
                       value |-> Thousandths(1),
                       contribution |-> 800] >> \o top_features
            /\ UNCHANGED verdict
       ELSE UNCHANGED << verdict, confidence, top_features >>
    /\ pc' = "content"
    /\ UNCHANGED << api, accessor, flags, detector, url, features, additional_info, env, result, call >>

\* lines 263-268
predict_dns ==
    /\ pc = "dns"
    /\ IF IsInvalidDns
       THEN /\ verdict' = "malicious"
            /\ confidence' = 900
            /\ top_features' =
                   << [name |-> "invalid_dns",
                       value |-> Thousandths(1),
                       contribution |-> 800] >> \o top_features
       ELSE UNCHANGED << verdict, confidence, top_features >>
    /\ pc' = "content"
    /\ UNCHANGED << api, accessor, flags, detector, url, features, additional_info, env, result, call >>

\* a seeded fault: the page is analysed whatever the verdict
ContentIsAnalyzed_always == CONTENT_ANALYSIS_AVAILABLE

\* line 271: the page is fetched only while the verdict is not malicious
ContentIsAnalyzed == CONTENT_ANALYSIS_AVAILABLE /\ verdict # "malicious"

\* a seeded fault: the content rule overwrites the confidence
predict_content_overwrites ==
    /\ pc = "content"
    /\ IF ContentIsAnalyzed
       THEN \E fetched \in FetchOutcomes :
              LET content_score == ContentScoreOfURL[url][fetched]
              IN  /\ env' = [env EXCEPT !.content = Some(fetched)]
                  /\ IF content_score > 0
                     THEN IF content_score >= 2
                          THEN /\ verdict' = "malicious"
                               /\ confidence' = 900
                               /\ top_features' =
                                      << [name |-> "suspicious_content",
                                          value |-> Thousandths(content_score),
                                          contribution |-> 700] >> \o top_features
                          ELSE /\ verdict' = "suspicious"
                               /\ confidence' = 700
                               /\ top_features' =
                                      << [name |-> "suspicious_content",
                                          value |-> Thousandths(content_score),
                                          contribution |-> 500] >> \o top_features
                     ELSE UNCHANGED << verdict, confidence, top_features >>
       ELSE UNCHANGED << verdict, confidence, top_features, env >>
    /\ pc' = "return"
    /\ UNCHANGED << api, accessor, flags, detector, url, features, additional_info, result, call >>

\* lines 270-282
predict_content ==
    /\ pc = "content"
    /\ IF ContentIsAnalyzed
       THEN \E fetched \in FetchOutcomes :
              LET content_score == ContentScoreOfURL[url][fetched]
              IN  /\ env' = [env EXCEPT !.content = Some(fetched)]
                  /\ IF content_score > 0
                     THEN IF content_score >= 2
                          THEN /\ verdict' = "malicious"
                               /\ confidence' = Max2(confidence, 900)
                               /\ top_features' =
                                      << [name |-> "suspicious_content",
                                          value |-> Thousandths(content_score),
                                          contribution |-> 700] >> \o top_features
                          ELSE /\ verdict' = "suspicious"
                               /\ confidence' = Max2(confidence, 700)
                               /\ top_features' =
                                      << [name |-> "suspicious_content",
                                          value |-> Thousandths(content_score),
                                          contribution |-> 500] >> \o top_features
                     ELSE UNCHANGED << verdict, confidence, top_features >>
       ELSE UNCHANGED << verdict, confidence, top_features, env >>
    /\ pc' = "return"
    /\ UNCHANGED << api, accessor, flags, detector, url, features, additional_info, result, call >>

\* lines 284-291
predict_return ==
    /\ pc = "return"
    /\ result' = Some([verdict |-> verdict,
                       confidence |-> confidence,
                       model_version |-> MODEL_VERSION,
                       top_features |-> top_features,
                       all_features |-> features,
                       additional_info |-> additional_info])
    /\ pc' = "done"
    /\ UNCHANGED << api, accessor, flags, detector, locals, env, call >>

BackendPcs == {"score", "new_domain", "brand", "dns", "content", "return"}

\* lines 292-293: an exception raised by any statement inside the try block
\* of the backend path (the scaler, the model, a step of the escalation) is
\* caught, and predict goes on to the mock prediction; the locals keep what
\* the try block had assigned
predict_except ==
    /\ pc \in BackendPcs
    /\ BackendPresent
    /\ env' = [env EXCEPT !.raised = TRUE]
    /\ pc' = "mock"
    /\ UNCHANGED << api, accessor, flags, detector, locals, result, call >>

\* a seeded fault: the mock result keeps the explanations the try block had
\* collected before it raised
predict_mock_keeps_explanations(jitter) ==
    /\ \/ pc = "mock"
       \/ pc = "score" /\ ~BackendPresent
    /\ result' = Some([_mock_predict(features, additional_info, jitter)
                          EXCEPT !.top_features = top_features \o @])
    /\ pc' = "done"
    /\ UNCHANGED << api, accessor, flags, detector, locals, env, call >>

\* a seeded fault: the mock prediction applies the DNS rule as well
predict_mock_escalates_dns(jitter) ==
    /\ \/ pc = "mock"
       \/ pc = "score" /\ ~BackendPresent
    /\ result' = Some(IF Get(additional_info, "dns_valid") = Some(FALSE)
                      THEN [_mock_predict(features, additional_info, jitter)
                               EXCEPT !.verdict = "malicious",
                                      !.confidence = Max2(@, 950)]
                      ELSE _mock_predict(features, additional_info, jitter))
    /\ pc' = "done"
    /\ UNCHANGED << api, accessor, flags, detector, locals, env, call >>

\* lines 295-296 and 441-484: the mock prediction
predict_mock(jitter) ==
    /\ \/ pc = "mock"
       \/ pc = "score" /\ ~BackendPresent
    /\ result' = Some(_mock_predict(features, additional_info, jitter))
    /\ pc' = "done"
    /\ UNCHANGED << api, accessor, flags, detector, locals, env, call >>

\* predict has returned; the detector is ready for the next call
Returned ==
    /\ pc = "done"
    /\ pc' = "idle"
    /\ url' = ""
    /\ features' = << >>
    /\ additional_info' = << >>
    /\ verdict' = ""
    /\ confidence' = 0
    /\ top_features' = << >>
    /\ env' = NoEnv
    /\ result' = None
    /\ UNCHANGED << api, accessor, flags, detector, call >>

Next ==
    \/ \E outcome \in LoadOutcomes, m \in Models : _load_model(outcome, m)
    \/ \E u \in URLS : predict(u)
    \/ predict_whitelist
    \/ predict_extract
    \/ predict_diagnostics
    \/ \E prediction \in {0, 1}, probability \in Probabilities :
           predict_backend(prediction, probability)
    \/ predict_new_domain
    \/ predict_brand
    \/ predict_dns
    \/ predict_content
    \/ predict_return
    \/ predict_except
    \/ \E jitter \in Jitters : predict_mock(jitter)
    \/ Returned

Spec == Init /\ [][Next]_vars

(***************************************************************************)
(* The pure functions of the detector, each applied on its own to inputs   *)
(* from a bounded set: call holds the function, its argument and what it   *)
(* returned until the caller has taken the value.                          *)
(***************************************************************************)
\* netlocs for the whitelist test and the brand check: entries of the
\* whitelist, subdomains, look-alikes, legitimate brand domains, other hosts
Domains ==
    { "google.com", "GOOGLE.com", "WWW.Google.COM", "www.google.com",
      "accounts.google.com", "docs.google.com", "a.b.google.com",
      "notgoogle.com", "mygoogle.com", "google.com.evil.org", "google.comx",
      ".google.com", "google.com:443", "googlecom", "xgoogle.com.",
      "g0ogle.com", "gooogle.com", "goooooogle.com", "gogle.com", "goggle.net",
      "paypal.com", "www.paypal.com", "paypal.me", "www.paypal.me",
      "paypal-secure-update.com", "paypa1.com", "secure.paypal.com",
      "gmail.com", "mail.gmail.com", "google.co.uk", "www.google.de",
      "microsoft.com", "login.microsoft.com", "micros0ft.com", "office.com",
      "apple.com", "appie.com", "icloud.com", "amazon.de", "smile.amazon.com",
      "netflix.com", "netflix.com.login.example.org", "fb.com", "t.co", "x.com",
      "chase.com", "chasse.com", "ebay.de", "ebay.co.uk", "adobe.com",
      "wellsfargo.com", "bankofamerica.com", "dropbox.com", "linkedin.com",
      "localhost", "evil.localhost", "127.0.0.1", "10.127.0.0.1",
      "github.com", "gist.github.com", "example.org", "www.example.org",
      "bit.ly", "com", "",
      "g00gle.com", "g00g1e.com", "www.gogle.com", "ebey.com", "appl.com",
      "lives.com", "netflax.co", "dropbox-files.com",
      "amazom.paypal-verify.com", "paypal-google.com", "ebay-chase.com",
      "gogle.ebay.com.example.org" }

\* feature vectors for the mock prediction: the vector of a plain URL with the
\* five features the heuristic reads set on both sides of its thresholds
MockFeatures ==
    { [extract_all("http://example.org/", None) EXCEPT
           !["suspicious_keywords"] = Thousandths(k),
           !["is_shortened"] = Thousandths(s),
           !["has_ip_address"] = Thousandths(ip),
           !["url_length"] = Thousandths(len),
           !["domain_dots"] = Thousandths(dots)] :
        k \in {0, 1, 2}, s \in {0, 1}, ip \in {0, 1}, len \in {75, 76, 80},
        dots \in {3, 4} }

InitFn ==
    /\ WHOIS_AVAILABLE = TRUE
    /\ DNS_AVAILABLE = TRUE
    /\ LEVENSHTEIN_AVAILABLE = TRUE
    /\ CONTENT_ANALYSIS_AVAILABLE = TRUE
    /\ ML_AVAILABLE = TRUE
    /\ model = None
    /\ scaler = None
    /\ pc = "fn"
    /\ url = ""
    /\ features = << >>
    /\ additional_info = << >>
    /\ verdict = ""
    /\ confidence = 0
    /\ top_features = << >>
    /\ env = NoEnv
    /\ result = None
    /\ call = None
    /\ _detector = None
    /\ callers = << >>
    /\ constructed = 0
    /\ url_checks = << >>
    /\ predictions = << >>
    /\ request = None
    /\ response = None

\* model.py, lines 173-180, on the netloc d
apply_isTrusted(d) ==
    /\ call = None
    /\ call' = Some([fn |-> "isTrusted", arg |-> d, ret |-> isTrusted(d)])
    /\ UNCHANGED << api, accessor, flags, detector, pc, locals, env, result >>

\* model.py, line 316, on a URL whose netloc is d
apply_check_brand_impersonation(d) ==
    /\ call = None
    /\ call' = Some([fn |-> "_check_brand_impersonation", arg |-> d,
                     ret |-> _check_brand_impersonation("http://" \o d \o "/")])
    /\ UNCHANGED << api, accessor, flags, detector, pc, locals, env, result >>

\* model.py, line 441
apply_mock_predict(f, jitter) ==
    /\ call = None
    /\ call' = Some([fn |-> "_mock_predict",
                     arg |-> [features |-> f, jitter |-> jitter],
                     ret |-> _mock_predict(f, << >>, jitter)])
    /\ UNCHANGED << api, accessor, flags, detector, pc, locals, env, result >>

\* the strings extract_all is given: the URLs of the model, the empty string
\* and strings that are no URL
ExtractInputs ==
    URLS \cup {"", "not a url", "://", "%%%", "http://[::1", "javascript:alert(1)"}

\* the enrichment records extract_all is given: none, an empty one, records
\* with and without the geo section and its as_reputation_score, a full
\* record, a record with a None section and one with a None field
Enrichments ==
    { None,
      Some(<< >>),
      Some([whois |-> Some([domain_age_days |-> Some(12000)])]),
      Some([geo |-> Some(<< >>)]),
      Some([geo |-> Some([high_risk_country |-> Some(1000)])]),
      Some([geo |-> Some([as_reputation_score |-> Some(900)])]),
      Some([whois |-> Some([domain_age_days |-> Some(400000),
                            registration_length_years |-> Some(2000)]),
            ssl |-> Some([has_https |-> Some(1000), valid_ssl |-> Some(1000),
                          cert_age_days |-> Some(90000)]),
            dns |-> Some([subdomain_count |-> Some(1000)]),
            geo |-> Some([high_risk_country |-> Some(0),
                          as_reputation_score |-> Some(0)]),
            content |-> Some([form_count |-> Some(2000),
                              has_password_field |-> Some(1000),
                              typosquatting_score |-> Some(250)]),
            google_safe_browsing |-> Some([threat_type_code |-> Some(3000)]),
            virustotal |-> Some([positives |-> Some(7000)]),
            blocklists |-> Some([in_phishing_list |-> Some(1000),
                                 ip_blocklisted |-> Some(1000)])]),
      Some([whois |-> None]),
      Some([ssl |-> Some([valid_ssl |-> None])]),
      Some([whois |-> None, geo |-> Some([high_risk_country |-> Some(1000)])]) }

\* features.py, line 53
apply_extract_all(u, enrichment_data) ==
    /\ call = None
    /\ call' = Some([fn |-> "extract_all",
                     arg |-> [url |-> u, enrichment_data |-> enrichment_data],
                     ret |-> [keys |-> extract_all_keys(u, enrichment_data),
                              features |-> extract_all(u, enrichment_data)]])
    /\ UNCHANGED << api, accessor, flags, detector, pc, locals, env, result >>

(***************************************************************************)
(* The routes of the application: url_check.py registers its handlers on   *)
(* the router in the order of their definition, main.py mounts the router  *)
(* under the prefix and then adds its own.  A request goes to the first    *)
(* route whose path and method both match.                                 *)
(***************************************************************************)
\* main.py, line 40
ROUTER_PREFIX == "/api/v1/url"

ROUTES ==
    << [methods |-> {"POST"}, path |-> ROUTER_PREFIX \o "/check",
        endpoint |-> "check_url"],
       [methods |-> {"GET"}, path |-> ROUTER_PREFIX \o "/{check_id}",
        endpoint |-> "get_check_result"],
       [methods |-> {"GET"}, path |-> ROUTER_PREFIX \o "/{check_id}/detail",
        endpoint |-> "get_check_detail"],
       [methods |-> {"POST"}, path |-> ROUTER_PREFIX \o "/search",
        endpoint |-> "search_checks"],
       [methods |-> {"GET"}, path |-> ROUTER_PREFIX \o "/stats",
        endpoint |-> "get_stats"],
       [methods |-> {"GET"}, path |-> "/", endpoint |-> "root"],
       [methods |-> {"GET"}, path |-> "/health", endpoint |-> "health_check"] >>

\* the segments of a path: the texts that follow each "/"
RECURSIVE Segments(_)
Segments(path) ==
    IF path = "" THEN << >>
    ELSE LET rest == Slice(path, 1)
             stop == FindFirst(rest, {"/"}, 1)
         IN  << SubSeq(rest, 1, stop - 1) >> \o Segments(Slice(rest, stop - 1))

\* a segment of a route's path is a parameter when it is written {name}
IsPathParam(segment) == StartsWith(segment, "{") /\ EndsWith(segment, "}")

\* the path of a request matches the path of a route: the same literal
\* segments, and one non-empty segment for every parameter
PathMatches(route_path, path) ==
    LET pattern == Segments(route_path)
        given == Segments(path)
    IN  /\ Len(pattern) = Len(given)
        /\ \A i \in 1..Len(pattern) :
               IF IsPathParam(pattern[i]) THEN given[i] # ""
               ELSE given[i] = pattern[i]

\* the values of the path parameters of a matching route
PathParams(route_path, path) ==
    LET pattern == Segments(route_path)
        given == Segments(path)
        at == {i \in 1..Len(pattern) : IsPathParam(pattern[i])}
    IN  IF at = {} THEN None ELSE Some(given[CHOOSE i \in at : TRUE])

\* the route a request is given to: the first that matches in full; 405 when
\* only paths match, 404 when nothing does
Dispatch(method, path) ==
    LET full == {k \in 1..Len(ROUTES) :
                    PathMatches(ROUTES[k].path, path) /\ method \in ROUTES[k].methods}
        partial == {k \in 1..Len(ROUTES) : PathMatches(ROUTES[k].path, path)}
    IN  IF full # {}
        THEN LET k == CHOOSE k \in full : \A j \in full : k <= j
             IN  [endpoint |-> ROUTES[k].endpoint,
                  path_params |-> PathParams(ROUTES[k].path, path)]
        ELSE [endpoint |-> IF partial # {} THEN "405" ELSE "404", path_params |-> None]

\* the requests of the model; none of them is changed by the router's
\* redirection of a trailing slash
RequestPaths ==
    { ROUTER_PREFIX \o "/check", ROUTER_PREFIX \o "/stats", ROUTER_PREFIX \o "/search",
      ROUTER_PREFIX \o "/3f2a6c1e", ROUTER_PREFIX \o "/3f2a6c1e/detail",
      ROUTER_PREFIX \o "/stats/detail", ROUTER_PREFIX \o "/", ROUTER_PREFIX,
      "/", "/health", "/stats" }

\* a request arrives and is given to a route
apply_dispatch(method, path) ==
    /\ call = None
    /\ call' = Some([fn |-> "dispatch",
                     arg |-> [method |-> method, path |-> path],
                     ret |-> Dispatch(method, path)])
    /\ UNCHANGED << api, accessor, flags, detector, pc, locals, env, result >>

\* the pages _analyze_content is given on its own: a failed fetch, a status
\* other than 200, and pages whose title names no, one, two or four brands
ContentTitles ==
    { "", "Welcome", "PayPal - Log in", "PayPal and Google sign in",
      "Amazon, Netflix, PayPal and eBay gift cards" }

ContentPages ==
    {[status |-> 0], [status |-> 404]}
        \cup [status : {200}, has_password_field : BOOLEAN, title : ContentTitles]

ContentURLs ==
    { "http://example.org/", "https://example.org/news?id=7",
      "http://paypal-secure-update.com", "https://www.google.com",
      "https://accounts.google.com/login", "http://bit.ly/abc",
      "http://paypal.com.evil.example.org/login" }

\* model.py, line 374
apply_analyze_content(u, fetched) ==
    /\ call = None
    /\ call' = Some([fn |-> "_analyze_content",
                     arg |-> [url |-> u, fetched |-> fetched],
                     ret |-> _analyze_content(u, fetched)])
    /\ UNCHANGED << api, accessor, flags, detector, pc, locals, env, result >>

\* netlocs for _has_ip_address: address literals with and without a port,
\* ordinary names, and names with a run of hexadecimal characters or with
\* digit groups in their labels
IpNetlocs ==
    { "192.168.0.1", "10.0.0.1:8080", "[::1]", "[2001:db8::1]", "example.org",
      "abc.def.example.org", "deadbeefcafe.example.com", "accedeface.net",
      "1234567890.com", "1.2.3.4.example.com", "v1.2.3.example.org",
      "cafe1234.example.org" }

\* features.py, line 173, on the netloc d, and the score _mock_predict gives
\* the features of a URL with that netloc
apply_has_ip_address(d) ==
    /\ call = None
    /\ call' = Some([fn |-> "_has_ip_address", arg |-> d,
                     ret |-> [has_ip_address |-> _has_ip_address(d),
                              score |-> MockScore(extract_all("http://" \o d \o "/", None))]])
    /\ UNCHANGED << api, accessor, flags, detector, pc, locals, env, result >>

\* the caller takes the returned value
apply_return ==
    /\ call # None
    /\ call' = None
    /\ UNCHANGED << api, accessor, flags, detector, pc, locals, env, result >>

NextFn ==
    \/ \E d \in Domains : apply_isTrusted(d)
    \/ \E d \in Domains : apply_check_brand_impersonation(d)
    \/ \E f \in MockFeatures, jitter \in Jitters : apply_mock_predict(f, jitter)
    \/ \E u \in ExtractInputs, enrichment_data \in Enrichments :
           apply_extract_all(u, enrichment_data)
    \/ \E method \in {"GET", "POST"}, path \in RequestPaths : apply_dispatch(method, path)
    \/ \E u \in ContentURLs, fetched \in ContentPages : apply_analyze_content(u, fetched)
    \/ \E d \in IpNetlocs : apply_has_ip_address(d)
    \/ apply_return

SpecFn == InitFn /\ [][NextFn]_vars

(***************************************************************************)
(* get_detector, model.py lines 503-511, called by several threads.  The   *)
(* function takes no lock, so the steps of different callers interleave:   *)
(* the test of the global, the construction, the assignment, the return.   *)
(***************************************************************************)
NumCallers == 3
Callers == 1..NumCallers

InitDetector ==
    /\ WHOIS_AVAILABLE = TRUE
    /\ DNS_AVAILABLE = TRUE
    /\ LEVENSHTEIN_AVAILABLE = TRUE
    /\ CONTENT_ANALYSIS_AVAILABLE = TRUE
    /\ ML_AVAILABLE = TRUE
    /\ model = None
    /\ scaler = None
    /\ pc = "accessor"
    /\ url = ""
    /\ features = << >>
    /\ additional_info = << >>
    /\ verdict = ""
    /\ confidence = 0
    /\ top_features = << >>
    /\ env = NoEnv
    /\ result = None
    /\ call = None
    /\ _detector = None
    /\ callers = [c \in Callers |-> [at |-> "idle", made |-> None, ret |-> None]]
    /\ constructed = 0
    /\ url_checks = << >>
    /\ predictions = << >>
    /\ request = None
    /\ response = None

\* line 509: if _detector is None
get_detector_test(c) ==
    /\ callers[c].at = "idle"
    /\ callers' = [callers EXCEPT
                      ![c].at = IF _detector = None THEN "construct" ELSE "return"]
    /\ UNCHANGED << api, _detector, constructed, flags, detector, pc, locals, env, result, call >>

\* line 510, right-hand side: PhishingDetector() builds a new detector and
\* loads its model
get_detector_construct(c) ==
    /\ callers[c].at = "construct"
    /\ constructed' = constructed + 1
    /\ callers' = [callers EXCEPT ![c].at = "assign", ![c].made = Some(constructed + 1)]
    /\ UNCHANGED << api, _detector, flags, detector, pc, locals, env, result, call >>

\* line 510: _detector = ...
get_detector_assign(c) ==
    /\ callers[c].at = "assign"
    /\ _detector' = callers[c].made
    /\ callers' = [callers EXCEPT ![c].at = "return"]
    /\ UNCHANGED << api, constructed, flags, detector, pc, locals, env, result, call >>

\* line 511: return _detector, which reads the global again
get_detector_return(c) ==
    /\ callers[c].at = "return"
    /\ callers' = [callers EXCEPT ![c].at = "done", ![c].ret = _detector]
    /\ UNCHANGED << api, _detector, constructed, flags, detector, pc, locals, env, result, call >>

NextDetector ==
    \/ \E c \in Callers : get_detector_test(c)
    \/ \E c \in Callers : get_detector_construct(c)
    \/ \E c \in Callers : get_detector_assign(c)
    \/ \E c \in Callers : get_detector_return(c)

SpecDetector == InitDetector /\ [][NextDetector]_vars

(***************************************************************************)
(* url_check.py: POST /check classifies a URL and stores a row of          *)
(* url_checks; GET /{check_id} reads the row and calls predict again.  A   *)
(* handler starts predict, predict takes its steps, and the handler goes   *)
(* on when predict has returned.  The service runs where of the optional   *)
(* libraries only dnspython and python-Levenshtein are installed.          *)
(***************************************************************************)
\* s.strip(), for blanks
RECURSIVE Strip(_)
Strip(s) ==
    IF s = "" THEN s
    ELSE IF CharAt(s, 1) = " " THEN Strip(Slice(s, 1))
    ELSE IF CharAt(s, Len(s)) = " " THEN Strip(SubSeq(s, 1, Len(s) - 1))
    ELSE s

\* the URLs submitted to POST /check
SubmittedURLs ==
    { "http://example.org/", " HTTP://Example.org/", "http://paypal-secure-update.com",
      "https://www.google.com" }

\* the ids uuid4 gives the rows, and the ids asked for with GET
CheckIds == {"3f2a6c1e"}
RequestedIds == CheckIds \cup {"0b9d7a52"}

InitApi ==
    /\ WHOIS_AVAILABLE = FALSE
    /\ DNS_AVAILABLE = TRUE
    /\ LEVENSHTEIN_AVAILABLE = TRUE
    /\ CONTENT_ANALYSIS_AVAILABLE = FALSE
    /\ ML_AVAILABLE = TRUE
    /\ model = None
    /\ scaler = None
    /\ pc = "load"
    /\ url = ""
    /\ features = << >>
    /\ additional_info = << >>
    /\ verdict = ""
    /\ confidence = 0
    /\ top_features = << >>
    /\ env = NoEnv
    /\ result = None
    /\ call = None
    /\ _detector = None
    /\ callers = << >>
    /\ constructed = 0
    /\ url_checks = << >>
    /\ predictions = << >>
    /\ request = None
    /\ response = None

\* lines 25-45: POST /check normalises the URL and calls predict
check_url(submitted_url, id) ==
    /\ request = None
    /\ pc = "idle"
    /\ id \notin DOMAIN url_checks
    /\ request' = Some([handler |-> "check_url", submitted_url |-> submitted_url,
                        check_id |-> id])
    /\ response' = None
    /\ url' = Strip(Lower(submitted_url))
    /\ pc' = "whitelist"
    /\ UNCHANGED << url_checks, predictions, accessor, flags, detector, features,
                    additional_info, verdict, confidence, top_features, env, result, call >>

\* lines 50-70: the row holds the verdict, the confidence and the version of
\* the prediction, not its explanations
check_url_commit ==
    /\ request # None
    /\ request[1].handler = "check_url"
    /\ pc = "done"
    /\ url_checks' =
           [k \in DOMAIN url_checks \cup {request[1].check_id} |->
               IF k = request[1].check_id
               THEN [submitted_url |-> request[1].submitted_url,
                     normalized_url |-> url,
                     verdict |-> result[1].verdict,
                     confidence |-> result[1].confidence,
                     model_version |-> result[1].model_version]
               ELSE url_checks[k]]
    /\ predictions' =
           [k \in DOMAIN predictions \cup {request[1].check_id} |->
               IF k = request[1].check_id THEN result[1] ELSE predictions[k]]
    /\ response' = Some([status_code |-> 200,
                         body |-> [check_id |-> request[1].check_id,
                                   status |-> "complete",
                                   estimated_time_seconds |-> 0]])
    /\ request' = None
    /\ pc' = "idle"
    /\ url' = ""
    /\ features' = << >>
    /\ additional_info' = << >>
    /\ verdict' = ""
    /\ confidence' = 0
    /\ top_features' = << >>
    /\ env' = NoEnv
    /\ result' = None
    /\ UNCHANGED << accessor, flags, detector, call >>

\* lines 86-93: GET /{check_id} finds the row and calls predict on its URL
get_check_result(id) ==
    /\ request = None
    /\ pc = "idle"
    /\ id \in DOMAIN url_checks
    /\ request' = Some([handler |-> "get_check_result", check_id |-> id])
    /\ response' = None
    /\ url' = url_checks[id].normalized_url
    /\ pc' = "whitelist"
    /\ UNCHANGED << url_checks, predictions, accessor, flags, detector, features,
                    additional_info, verdict, confidence, top_features, env, result, call >>

\* lines 88-89: there is no such row
get_check_result_not_found(id) ==
    /\ request = None
    /\ pc = "idle"
    /\ id \notin DOMAIN url_checks
    /\ response' = Some([status_code |-> 404, body |-> [detail |-> "Check not found"]])
    /\ UNCHANGED << url_checks, predictions, request, accessor, flags, detector, pc,
                    locals, env, result, call >>

\* lines 95-106: the answer takes the verdict, the confidence and the version
\* from the row and the explanations from the prediction just made
get_check_result_respond ==
    /\ request # None
    /\ request[1].handler = "get_check_result"
    /\ pc = "done"
    /\ response' = Some([status_code |-> 200,
                         body |-> [check_id |-> request[1].check_id,
                                   url |-> url_checks[request[1].check_id].submitted_url,
                                   verdict |-> url_checks[request[1].check_id].verdict,
                                   confidence |-> url_checks[request[1].check_id].confidence,
                                   model_version |->
                                       url_checks[request[1].check_id].model_version,
                                   top_features |-> result[1].top_features]])
    /\ request' = None
    /\ pc' = "idle"
    /\ url' = ""
    /\ features' = << >>
    /\ additional_info' = << >>
    /\ verdict' = ""
    /\ confidence' = 0
    /\ top_features' = << >>
    /\ env' = NoEnv
    /\ result' = None
    /\ UNCHANGED << url_checks, predictions, accessor, flags, detector, call >>

NextApi ==
    \/ \E outcome \in LoadOutcomes, m \in Models : _load_model(outcome, m)
    \/ \E submitted_url \in SubmittedURLs, id \in CheckIds : check_url(submitted_url, id)
    \/ check_url_commit
    \/ \E id \in RequestedIds : get_check_result(id)
    \/ \E id \in RequestedIds : get_check_result_not_found(id)
    \/ get_check_result_respond
    \/ predict_whitelist
    \/ predict_extract
    \/ predict_diagnostics
    \/ \E prediction \in {0, 1}, probability \in Probabilities :
           predict_backend(prediction, probability)
    \/ predict_new_domain
    \/ predict_brand
    \/ predict_dns
    \/ predict_content
    \/ predict_return
    \/ predict_except
    \/ \E jitter \in Jitters : predict_mock(jitter)

SpecApi == InitApi /\ [][NextApi]_vars

(***************************************************************************)
(* The vocabulary of the properties.                                       *)
(***************************************************************************)
\* predict has returned a result
Finished == pc = "done" /\ result # None

\* the result was returned by the whitelist test (line 190)
Whitelisted == "is_whitelisted" \in DOMAIN result[1].additional_info

\* the result was returned at the end of the backend path (line 284)
FromBackend ==
    Finished /\ result[1].model_version = MODEL_VERSION /\ ~Whitelisted

\* the list of explanations tf holds one named n
Explains(tf, n) == \E i \in 1..Len(tf) : tf[i].name = n

\* benign < suspicious < malicious
Severity(v) ==
    CASE v = "benign" -> 0 [] v = "suspicious" -> 1 [] v = "malicious" -> 2

\* the positions of predict at which an escalation rule is about to run
EscalationPcs == {"new_domain", "brand", "dns", "content"}

\* the positions of predict after the whitelist test has let the URL through
ScoringPcs == {"extract", "diagnostics", "mock"} \cup BackendPcs

Indicator(b) == IF b THEN 1 ELSE 0

\* the host of a netloc: what follows the last "@", up to the port's ":"
HostOfNetloc(n) ==
    LET ats == {i \in 1..Len(n) : CharAt(n, i) = "@"}
        hostinfo == IF ats = {} THEN n
                    ELSE Slice(n, CHOOSE i \in ats : \A k \in ats : k <= i)
    IN  SubSeq(hostinfo, 1, FindFirst(hostinfo, {":"}, 1) - 1)

\* the URLs of the model whose host is trusted
TrustedHostURL == [u \in URLS |-> ParsedURL[u] /\ isTrusted(HostOfNetloc(Netloc(u)))]

(***************************************************************************)
(* The whitelist short-circuit.                                            *)
(***************************************************************************)
\* C1 as stated: for a URL whose host is trusted (an entry of the whitelist
\* or a true subdomain of one) predict returns benign with confidence 1.0
\* and no explanations, whatever the backend is and whatever the WHOIS, DNS
\* and geolocation lookups did.
C1_TrustedHostIsBenign ==
    /\ (pc = "done" /\ TrustedHostURL[url]) =>
           /\ result # None
           /\ result[1].verdict = "benign"
           /\ result[1].confidence = Thousandths(1)
           /\ result[1].top_features = << >>

\* C1 for the URLs whose whole netloc (the host together with any port and
\* user information) is trusted: such a URL never enters the scoring path
\* and is answered benign, 1.0, no explanations. This much holds.
C1_TrustedNetlocIsBenign ==
    /\ (pc = "done" /\ TrustedURL[url]) =>
           /\ result # None
           /\ result[1].verdict = "benign"
           /\ result[1].confidence = Thousandths(1)
           /\ result[1].top_features = << >>
    /\ pc \in ScoringPcs => ~TrustedURL[url]

\* a trusted URL has been answered while the backend was missing and all
\* three lookups failed
C1_Witness ==
    /\ pc = "done"
    /\ TrustedURL[url]
    /\ model = None
    /\ env.whois = "fails"
    /\ env.dns = "lookup_error"
    /\ env.geo = "fails"
    /\ result[1].verdict = "benign"
    /\ result[1].additional_info.dns_valid = Some(FALSE)

(***************************************************************************)
(* The escalation rules of the backend path.                               *)
(***************************************************************************)
\* C2 as stated: whenever the diagnostics of a returned result name an
\* impersonated brand, the result is malicious with confidence 0.95 and its
\* first explanation is impersonates_<brand> with contribution 0.9.
C2_BrandRuleAlwaysWins ==
    (Finished /\ Get(result[1].additional_info, "impersonated_brand") # None) =>
        /\ result[1].verdict = "malicious"
        /\ result[1].confidence = 950
        /\ Len(result[1].top_features) > 0
        /\ result[1].top_features[1] =
               [name |-> "impersonates_" \o result[1].additional_info.impersonated_brand[1],
                value |-> Thousandths(1),
                contribution |-> 900]

\* C2, amended: when the backend path returns and the diagnostics name an
\* impersonated brand, the result is malicious and holds the explanation
\* impersonates_<brand> with contribution 0.9; the confidence is 0.95 and
\* that explanation is the first one unless dns_valid is False, in which
\* case the confidence is 0.9 and invalid_dns stands before it.
C2_BrandRuleInBackendPath ==
    (FromBackend /\ Get(result[1].additional_info, "impersonated_brand") # None) =>
        LET r == result[1]
            impersonates ==
                [name |-> "impersonates_" \o r.additional_info.impersonated_brand[1],
                 value |-> Thousandths(1),
                 contribution |-> 900]
        IN  /\ r.verdict = "malicious"
            /\ IF r.additional_info.dns_valid = Some(FALSE)
               THEN /\ r.confidence = 900
                    /\ r.top_features[1].name = "invalid_dns"
                    /\ r.top_features[2] = impersonates
               ELSE /\ r.confidence = 950
                    /\ r.top_features[1] = impersonates

\* the backend called the URL benign, the brand rule fired, the DNS rule did
\* not, and the result leads with the brand
C2_Witness ==
    /\ FromBackend
    /\ env.prediction = Some(0)
    /\ Get(result[1].additional_info, "impersonated_brand") = Some("paypal")
    /\ Get(result[1].additional_info, "dns_valid") = Some(TRUE)
    /\ result[1].confidence = 950
    /\ result[1].top_features[1].name = "impersonates_paypal"

\* C3: in a result of the backend path, dns_valid = False gives malicious
\* with confidence 0.9 and first explanation invalid_dns (contribution 0.8),
\* whatever the backend said and whichever earlier rule fired; with any
\* other dns_valid (True, None, no diagnostics) there is no invalid_dns.
C3_InvalidDnsRule ==
    FromBackend =>
        LET r == result[1]
        IN  IF Get(r.additional_info, "dns_valid") = Some(FALSE)
            THEN /\ r.verdict = "malicious"
                 /\ r.confidence = 900
                 /\ r.top_features[1] =
                        [name |-> "invalid_dns", value |-> Thousandths(1),
                         contribution |-> 800]
            ELSE ~Explains(r.top_features, "invalid_dns")

\* the new-domain rule and the brand rule have both fired before the DNS rule
C3_Witness ==
    /\ FromBackend
    /\ env.prediction = Some(0)
    /\ Get(result[1].additional_info, "dns_valid") = Some(FALSE)
    /\ Len(result[1].top_features) >= 3
    /\ result[1].top_features[1].name = "invalid_dns"
    /\ result[1].top_features[2].name = "impersonates_paypal"
    /\ result[1].top_features[3].name = "newly_registered_domain"

\* C4 as stated: when the resolver itself fails on both the A and the MX
\* query, dns_valid is True; it is False only when a lookup worked and found
\* no record; a lookup error never brings the invalid_dns escalation.
C4_LookupErrorCountsAsValid ==
    /\ (pc \in ScoringPcs \ {"extract", "diagnostics"} /\ env.dns = "lookup_error") =>
           Get(additional_info, "dns_valid") = Some(TRUE)
    /\ (pc \in ScoringPcs /\ Get(additional_info, "dns_valid") = Some(FALSE)) =>
           env.dns \in {"no_record", "no_record_and_lookup_error"}
    /\ (Finished /\ env.dns = "lookup_error") =>
           ~Explains(result[1].top_features, "invalid_dns")

\* C4, what holds instead: once the DNS check has run, dns_valid is True
\* exactly when the A or the MX query returned an answer; when both raised,
\* for whatever reason, it is False.
C4_DnsValidIffAnswered ==
    (pc \in ScoringPcs \ {"extract", "diagnostics"} /\ env.dns # "not_called") =>
        Get(additional_info, "dns_valid") = Some(env.dns = "answer")

\* the resolver failed on both queries, and the backend path answered
\* malicious on the strength of invalid_dns
C4_Witness ==
    /\ FromBackend
    /\ env.dns = "lookup_error"
    /\ env.prediction = Some(0)
    /\ result[1].verdict = "malicious"
    /\ result[1].confidence = 900
    /\ result[1].top_features[1].name = "invalid_dns"

\* C5: a step taken at one of the four escalation rules never lowers the
\* severity of the verdict, and leaves a malicious verdict malicious.
C5_SeverityNeverDecreases ==
    [][(pc \in EscalationPcs) =>
           ( /\ Severity(verdict') >= Severity(verdict)
             /\ (verdict = "malicious" => verdict' = "malicious") )]_vars

\* a verdict the backend gave as benign went up twice: the new-domain rule
\* made it suspicious and the content rule malicious
C5_Witness ==
    /\ pc = "return"
    /\ env.prediction = Some(0)
    /\ IsNewDomain
    /\ ~IsImpersonation
    /\ ~IsInvalidDns
    /\ env.content # None
    /\ verdict = "malicious"

\* C6: when the backend says benign, the age is known and below 30 days and
\* no later rule fires, the result is suspicious with confidence 0.65 and
\* first explanation newly_registered_domain (contribution 0.5); and the
\* new-domain step changes nothing when the age is unknown or at least 30
\* days, or the verdict is malicious.
C6_NewDomainRule ==
    /\ [](( /\ FromBackend
            /\ env.prediction = Some(0)
            /\ Get(result[1].additional_info, "domain_age_days") # None
            /\ result[1].additional_info.domain_age_days[1] < NEW_DOMAIN_DAYS
            /\ result[1].additional_info.impersonated_brand = None
            /\ result[1].additional_info.dns_valid # Some(FALSE)
            /\ (env.content # None => ContentScoreOfURL[url][env.content[1]] = 0) )
           => /\ result[1].verdict = "suspicious"
              /\ result[1].confidence = 650
              /\ result[1].top_features[1] =
                     [name |-> "newly_registered_domain",
                      value |-> Thousandths(result[1].additional_info.domain_age_days[1]),
                      contribution |-> 500])
    /\ [][( /\ pc = "new_domain"
            /\ \/ Get(additional_info, "domain_age_days") = None
               \/ additional_info.domain_age_days[1] >= NEW_DOMAIN_DAYS
               \/ verdict = "malicious" )
           => UNCHANGED << verdict, confidence, top_features >>]_vars

\* a benign prediction for a 29-day-old domain came back suspicious
C6_Witness ==
    /\ FromBackend
    /\ env.prediction = Some(0)
    /\ Get(result[1].additional_info, "domain_age_days") = Some(NEW_DOMAIN_DAYS - 1)
    /\ env.content # None
    /\ result[1].verdict = "suspicious"
    /\ result[1].confidence = 650
    /\ result[1].top_features[1].name = "newly_registered_domain"

(***************************************************************************)
(* The mock prediction.                                                    *)
(***************************************************************************)
\* C7: _mock_predict scores 2 for a suspicious keyword, 1 for a shortener, 3
\* for an IP address, 1 for a length above 75 and 1 for more than 3 dots;
\* a score of 2 or more is malicious with confidence min(0.6 + 0.1 * score,
\* 0.99), a score of 1 suspicious with 0.65, a score of 0 benign with a
\* confidence in [0.85, 0.95); every score of 4 or more gives 0.99.
C7_MockScorer ==
    (call # None /\ call[1].fn = "_mock_predict") =>
        LET f == call[1].arg.features
            r == call[1].ret
            risk == 2 * Indicator(f["suspicious_keywords"] > 0)
                    + Indicator(f["is_shortened"] > 0)
                    + 3 * Indicator(f["has_ip_address"] > 0)
                    + Indicator(f["url_length"] > Thousandths(75))
                    + Indicator(f["domain_dots"] > Thousandths(3))
        IN  /\ risk >= 2 => /\ r.verdict = "malicious"
                            /\ r.confidence = Min2(600 + 100 * risk, 990)
            /\ risk = 1 => r.verdict = "suspicious" /\ r.confidence = 650
            /\ risk = 0 => /\ r.verdict = "benign"
                           /\ r.confidence >= 850
                           /\ r.confidence < 950
            /\ risk >= 4 => r.verdict = "malicious" /\ r.confidence = 990

\* an IP-address host with a URL of 80 characters and nothing else: score 4
C7_Witness ==
    /\ call # None
    /\ call[1].fn = "_mock_predict"
    /\ call[1].arg.features["has_ip_address"] = Thousandths(1)
    /\ call[1].arg.features["url_length"] = Thousandths(80)
    /\ call[1].arg.features["suspicious_keywords"] = 0
    /\ call[1].arg.features["is_shortened"] = 0
    /\ call[1].arg.features["domain_dots"] = Thousandths(3)
    /\ call[1].ret.verdict = "malicious"
    /\ call[1].ret.confidence = 990

\* C8: when the backend is not loaded, or the backend path raised, predict
\* ends at the mock prediction: the result is what _mock_predict gives for
\* the same features and diagnostics, it carries the -mock version, and no
\* verdict, confidence or explanation of the abandoned escalation is in it.
C8_FallbackToMock ==
    /\ env.raised => pc \in {"mock", "done"}
    /\ (Finished /\ ~Whitelisted /\ (~BackendPresent \/ env.raised)) =>
           LET r == result[1]
           IN  /\ r.model_version = MODEL_VERSION \o "-mock"
               /\ r.verdict = MockVerdict(features)
               /\ r.all_features = features
               /\ \E jitter \in Jitters :
                      r = _mock_predict(features, additional_info, jitter)
               /\ \A i \in 1..Len(r.top_features) :
                      /\ r.top_features[i].name \in FeatureNameSet
                      /\ r.top_features[i].value = features[r.top_features[i].name]

\* the backend path had reached malicious through the DNS rule when it
\* raised, and the result is the mock's benign
C8_Witness ==
    /\ Finished
    /\ env.raised
    /\ verdict = "malicious"
    /\ Explains(top_features, "invalid_dns")
    /\ result[1].verdict = "benign"
    /\ result[1].model_version = "v1.0.0-mock"

(***************************************************************************)
(* The whitelist test and the brand check as functions.                    *)
(***************************************************************************)
\* C9: isTrusted is true exactly when the lower-cased domain is an entry of
\* the whitelist or ends with "." followed by an entry; notgoogle.com is
\* not trusted, accounts.google.com is.
C9_isTrusted ==
    (call # None /\ call[1].fn = "isTrusted") =>
        LET d == Lower(call[1].arg)
        IN  /\ call[1].ret <=>
                   \/ d \in WHITELIST
                   \/ \E entry \in WHITELIST :
                          /\ Len(d) > Len(entry)
                          /\ SubSeq(d, Len(d) - Len(entry), Len(d)) = "." \o entry
            /\ call[1].arg = "notgoogle.com" => ~call[1].ret
            /\ call[1].arg = "accounts.google.com" => call[1].ret

\* the bare-suffix case has been decided
C9_Witness ==
    /\ call # None
    /\ call[1].fn = "isTrusted"
    /\ call[1].arg = "notgoogle.com"
    /\ call[1].ret = FALSE

\* C10 as stated: the brand check returns None for every domain that, with
\* one leading "www." stripped, is a legitimate domain of some brand, and
\* for every domain isTrusted accepts.
C10_BrandCheckSparesLegitimateAndTrusted ==
    (call # None /\ call[1].fn = "_check_brand_impersonation") =>
        LET lowered == Lower(call[1].arg)
            d == IF StartsWith(lowered, "www.") THEN Slice(lowered, 4) ELSE lowered
        IN  ( \/ \E k \in 1..Len(TARGET_BRANDS) :
                     InList(d, TARGET_BRANDS[k].legitimate_domains)
              \/ isTrusted(call[1].arg) )
            => call[1].ret = None

\* C10, what holds instead: the brand check returns None for every domain
\* that, lower-cased and with one leading "www." stripped, is a legitimate
\* domain of some brand or an entry of the whitelist itself.
C10_BrandCheckSparesLegitimateAndListed ==
    (call # None /\ call[1].fn = "_check_brand_impersonation") =>
        LET lowered == Lower(call[1].arg)
            d == IF StartsWith(lowered, "www.") THEN Slice(lowered, 4) ELSE lowered
        IN  ( \/ \E k \in 1..Len(TARGET_BRANDS) :
                     InList(d, TARGET_BRANDS[k].legitimate_domains)
              \/ d \in WHITELIST )
            => call[1].ret = None

\* a legitimate domain that contains another brand's legitimate domain as a
\* substring, behind "www.", has been cleared
C10_Witness ==
    /\ call # None
    /\ call[1].fn = "_check_brand_impersonation"
    /\ call[1].arg = "www.paypal.me"
    /\ call[1].ret = None

\* the domain the brand check works on: the netloc in lower case, without one
\* leading "www."
BrandCheckDomain(netloc) ==
    IF StartsWith(Lower(netloc), "www.") THEN Slice(Lower(netloc), 4) ELSE Lower(netloc)

\* the domain is an entry of the whitelist, a legitimate domain of some brand,
\* or holds the name of some brand
ListedOrNamesBrand(domain) ==
    \/ domain \in WHITELIST
    \/ \E k \in 1..Len(TARGET_BRANDS) :
           \/ InList(domain, TARGET_BRANDS[k].legitimate_domains)
           \/ Contains(domain, TARGET_BRANDS[k].brand)

\* brand k has a legitimate domain whose first label is at an edit distance
\* of 1 or 2 from the first label of the domain, that label being longer
\* than 4 characters
TypoOfBrand(domain, k) ==
    \E i \in 1..Len(TARGET_BRANDS[k].legitimate_domains) :
        LET dist == Distance(FirstLabel(domain),
                             FirstLabel(TARGET_BRANDS[k].legitimate_domains[i]))
        IN  0 < dist /\ dist <= 2 /\ Len(FirstLabel(domain)) > 4

\* C11: for a domain that is not in the whitelist, is no legitimate domain of
\* a brand and holds no brand name, the brand check returns a brand exactly
\* when some legitimate domain of a brand has a first label at edit distance
\* 1 or 2 from the domain's first label and that label is longer than 4
\* characters, and the brand returned is such a brand; g0ogle.com gives
\* google, goooooogle.com gives None.
C11_TyposquattingRule ==
    (call # None /\ call[1].fn = "_check_brand_impersonation") =>
        LET domain == BrandCheckDomain(call[1].arg)
            ret == call[1].ret
        IN  /\ ~ListedOrNamesBrand(domain) =>
                   /\ ret # None <=> \E k \in 1..Len(TARGET_BRANDS) : TypoOfBrand(domain, k)
                   /\ ret # None =>
                          \E k \in 1..Len(TARGET_BRANDS) :
                              /\ TARGET_BRANDS[k].brand = ret[1]
                              /\ TypoOfBrand(domain, k)
            /\ call[1].arg = "g0ogle.com" => ret = Some("google")
            /\ call[1].arg = "goooooogle.com" => ret = None

\* a domain without any brand name, two edits away from google, was flagged
C11_Witness ==
    /\ call # None
    /\ call[1].fn = "_check_brand_impersonation"
    /\ call[1].arg = "g00gle.com"
    /\ call[1].ret = Some("google")

(***************************************************************************)
(* The feature extractor as a function.                                    *)
(***************************************************************************)
\* C12: whatever string and whatever enrichment record extract_all is given,
\* it returns the 25 feature names of feature_names, in that order, each with
\* a value; when urlparse raises on the string every value is 0.0.
C12_ExtractAllIsTotal ==
    (call # None /\ call[1].fn = "extract_all") =>
        LET ret == call[1].ret
        IN  /\ ret.keys = feature_names
            /\ Len(ret.keys) = 25
            /\ DOMAIN ret.features = FeatureNameSet
            /\ \A name \in FeatureNameSet : ret.features[name] \in Nat
            /\ UrlparseRaises(call[1].arg.url) =>
                   \A name \in FeatureNameSet : ret.features[name] = 0

\* a string urlparse rejects was given together with a full enrichment
\* record, and 25 zeros came back
C12_Witness ==
    /\ call # None
    /\ call[1].fn = "extract_all"
    /\ call[1].arg.url = "http://[bad/x"
    /\ IsEnriched(call[1].arg.enrichment_data)
    /\ "virustotal" \in DOMAIN call[1].arg.enrichment_data[1]
    /\ Len(call[1].ret.keys) = 25
    /\ \A name \in FeatureNameSet : call[1].ret.features[name] = 0

\* the enrichment record holds a value for the enriched feature e
Supplies(enrichment_data, e) ==
    /\ enrichment_data # None
    /\ e.section \in DOMAIN enrichment_data[1]
    /\ enrichment_data[1][e.section] # None
    /\ e.field \in DOMAIN enrichment_data[1][e.section][1]

\* C13 as stated: for a string urlparse accepts, as_reputation_score is 0.5
\* whenever the enrichment supplies no value for it (no geo section, no such
\* field, an empty record, no record), and each other enriched feature is
\* 0.0 when its value is not supplied.
C13_MissingReputationIsHalf ==
    (call # None /\ call[1].fn = "extract_all" /\ ~UrlparseRaises(call[1].arg.url)) =>
        \A i \in 1..Len(ENRICHED_FIELDS) :
            ~Supplies(call[1].arg.enrichment_data, ENRICHED_FIELDS[i]) =>
                call[1].ret.features[ENRICHED_FIELDS[i].name] =
                    IF ENRICHED_FIELDS[i].name = "as_reputation_score" THEN 500 ELSE 0

\* C13, what holds instead: when a non-empty enrichment record is read
\* without an error, a value that is not supplied is 0.5 for
\* as_reputation_score and 0.0 for the others; with no record or an empty
\* one all 15 enriched features are 0.0, as_reputation_score included.
C13_DefaultsOfEnrichedFeatures ==
    (call # None /\ call[1].fn = "extract_all"
        /\ ~extract_all_raises(call[1].arg.url, call[1].arg.enrichment_data)) =>
        \A i \in 1..Len(ENRICHED_FIELDS) :
            ~Supplies(call[1].arg.enrichment_data, ENRICHED_FIELDS[i]) =>
                call[1].ret.features[ENRICHED_FIELDS[i].name] =
                    IF /\ ENRICHED_FIELDS[i].name = "as_reputation_score"
                       /\ IsEnriched(call[1].arg.enrichment_data)
                    THEN 500 ELSE 0

\* no enrichment record was given for a plain URL, and as_reputation_score
\* came back as 0.0
C13_Witness ==
    /\ call # None
    /\ call[1].fn = "extract_all"
    /\ call[1].arg.url = "http://example.org/"
    /\ call[1].arg.enrichment_data = None
    /\ call[1].ret.features["as_reputation_score"] = 0
    /\ call[1].ret.features["url_length"] = Thousandths(19)

(***************************************************************************)
(* The explanations of a result of the backend path.                       *)
(***************************************************************************)
\* the names the four rules give their explanations, for a result r, each
\* with whether its rule fired in the call that produced r; the rule applied
\* last comes first
FiredRules(r) ==
    LET info == r.additional_info
        age == Get(info, "domain_age_days")
        brand == Get(info, "impersonated_brand")
    IN  << [name |-> "suspicious_content",
            fired |-> env.content # None
                      /\ ContentScoreOfURL[url][env.content[1]] > 0],
           [name |-> "invalid_dns",
            fired |-> Get(info, "dns_valid") = Some(FALSE)],
           [name |-> IF brand # None THEN "impersonates_" \o brand[1] ELSE "",
            fired |-> brand # None /\ brand[1] # ""],
           [name |-> "newly_registered_domain",
            fired |-> age # None /\ age[1] < NEW_DOMAIN_DAYS
                      /\ env.prediction = Some(0)] >>

\* the names of the rules that fired, in the order of FiredRules
FiredNames(r) ==
    LET fired == {k \in 1..4 : FiredRules(r)[k].fired}
    IN  [i \in 1..Cardinality(fired) |->
            FiredRules(r)[CHOOSE k \in fired : Cardinality({j \in fired : j < k}) = i - 1].name]

\* C14: the explanations of a result of the backend path are the
\* explanations of the rules that fired, the rule applied last first
\* (content, DNS, brand, new domain), followed by at most 5 explanations of
\* the backend, which are features in descending order of importance; no
\* explanation of the backend stands before one of a rule.
C14_ExplanationOrder ==
    FromBackend =>
        LET tf == result[1].top_features
            synthetic == FiredNames(result[1])
            n == Len(synthetic)
        IN  /\ Len(tf) >= n
            /\ \A i \in 1..n : tf[i].name = synthetic[i] /\ tf[i].name \notin FeatureNameSet
            /\ \A i \in (n + 1)..Len(tf) : tf[i].name \in FeatureNameSet
            /\ Len(tf) - n <= 5
            /\ \A i \in (n + 1)..(Len(tf) - 1) : tf[i].contribution >= tf[i + 1].contribution
            /\ SubSeq(tf, n + 1, Len(tf)) = _get_top_features(model[1], features)
            /\ \A i \in (n + 1)..Len(tf) :
                   \A name \in FeatureNameSet \ {tf[k].name : k \in (n + 1)..Len(tf)} :
                       \E k \in 1..Len(feature_names) :
                           /\ feature_names[k] = name
                           /\ model[1].feature_importances_[1][k] <= tf[i].contribution

\* three rules fired on top of a random forest's five explanations
C14_Witness ==
    /\ FromBackend
    /\ model[1].kind = "RandomForestClassifier"
    /\ Len(result[1].top_features) = 8
    /\ result[1].top_features[1].name = "invalid_dns"
    /\ result[1].top_features[2].name = "impersonates_paypal"
    /\ result[1].top_features[3].name = "newly_registered_domain"
    /\ result[1].top_features[4].name = "has_ip_address"
    /\ result[1].top_features[5].name = "suspicious_keywords"
    /\ result[1].top_features[8].name = "digit_ratio"

(***************************************************************************)
(* Strings that are no URL.                                                *)
(***************************************************************************)
\* C15 as stated: a submission that cannot be parsed into a URL is answered
\* with an error and never with a verdict benign, suspicious or malicious.
C15_UnparseableGetsNoVerdict ==
    (pc = "done" /\ ~ParsedURL[url]) =>
        \/ result = None
        \/ result[1].verdict \notin {"benign", "suspicious", "malicious"}

\* C15, what holds instead: a string urlparse rejects is classified like any
\* other: predict returns a verdict for the all-zero feature vector with
\* empty diagnostics, and without a backend that verdict is benign.
C15_UnparseableIsClassified ==
    (pc = "done" /\ ~ParsedURL[url]) =>
        /\ result # None
        /\ result[1].verdict \in {"benign", "suspicious", "malicious"}
        /\ DOMAIN result[1].additional_info = {}
        /\ \A name \in FeatureNameSet : result[1].all_features[name] = 0
        /\ (~BackendPresent \/ env.raised) =>
               /\ result[1].verdict = "benign"
               /\ result[1].confidence \in 850..949

\* a string urlparse rejects has been answered benign by the mock prediction
C15_Witness ==
    /\ Finished
    /\ url = "http://[bad/x"
    /\ model = None
    /\ result[1].verdict = "benign"
    /\ result[1].model_version = "v1.0.0-mock"
    /\ DOMAIN result[1].additional_info = {}

(***************************************************************************)
(* The diagnostics.                                                        *)
(***************************************************************************)
\* the five diagnostics of the scoring path
DiagnosticNames ==
    {"domain_age_days", "dns_valid", "is_https", "impersonated_brand", "server_location"}

\* the diagnostics of r that do not depend on a lookup are the computed ones,
\* and a failed WHOIS or geolocation lookup shows as its default
DiagnosticsComputed(r) ==
    LET info == r.additional_info
    IN  /\ DOMAIN info = DiagnosticNames
        /\ info.is_https = StartsWith(url, "https")
        /\ info.impersonated_brand =
               (IF LEVENSHTEIN_AVAILABLE THEN BrandOfURL[url] ELSE None)
        /\ env.whois \in {"fails", "not_called"} => info.domain_age_days = None
        /\ env.whois = "answers" => info.domain_age_days # None
        /\ env.geo = "fails" <=> info.server_location = "Unknown"
        /\ env.dns = "not_called" <=> info.dns_valid = None

\* C16 as stated: every result of the scoring path holds all five
\* diagnostics; a lookup that failed shows as its default (age None,
\* location "Unknown", brand None) while the others are computed all the
\* same; and predict always returns a result.
C16_DiagnosticsAreIndependent ==
    /\ pc = "done" => result # None
    /\ (Finished /\ ~Whitelisted) => DiagnosticsComputed(result[1])

\* C16, what holds instead: predict always returns a result; for a URL that
\* urlparse accepts it holds all five diagnostics, each computed or at its
\* default on its own; for a string urlparse rejects the diagnostics are
\* empty, the https flag included.
C16_DiagnosticsOfParsedURL ==
    /\ pc = "done" => result # None
    /\ (Finished /\ ~Whitelisted) =>
           IF ParsedURL[url] THEN DiagnosticsComputed(result[1])
           ELSE DOMAIN result[1].additional_info = {}

\* WHOIS failed while geolocation and DNS answered and a brand was found
C16_Witness ==
    /\ Finished
    /\ ~Whitelisted
    /\ env.whois = "fails"
    /\ env.geo = "answers"
    /\ env.dns = "answer"
    /\ DOMAIN result[1].additional_info = DiagnosticNames
    /\ result[1].additional_info.domain_age_days = None
    /\ result[1].additional_info.server_location = "United States US"
    /\ result[1].additional_info.dns_valid = Some(TRUE)
    /\ result[1].additional_info.impersonated_brand = Some("paypal")

(***************************************************************************)
(* The process-wide detector.                                              *)
(***************************************************************************)
\* C17 as stated: however the callers of get_detector interleave, the
\* detector is constructed at most once and all callers receive the same
\* instance.
C17_OneDetectorForAll ==
    /\ constructed <= 1
    /\ \A c1 \in DOMAIN callers, c2 \in DOMAIN callers :
           (callers[c1].at = "done" /\ callers[c2].at = "done") =>
               callers[c1].ret = callers[c2].ret

\* C17, what holds instead: every caller receives a detector that was
\* constructed, a caller that finds the global set constructs nothing, and
\* there are as many constructions as callers that found the global unset.
C17_EveryCallerGetsSomeDetector ==
    /\ \A c \in DOMAIN callers :
           /\ callers[c].at = "done" =>
                  callers[c].ret # None /\ callers[c].ret[1] \in 1..constructed
           /\ callers[c].at \in {"return", "done"} => _detector # None
    /\ constructed = Cardinality({c \in DOMAIN callers : callers[c].made # None})
    /\ constructed <= NumCallers

\* two callers found the global unset, each constructed a detector, and
\* they went away with different instances
C17_Witness ==
    /\ constructed = 2
    /\ \E c1 \in DOMAIN callers, c2 \in DOMAIN callers :
           /\ callers[c1].at = "done"
           /\ callers[c2].at = "done"
           /\ callers[c1].ret # callers[c2].ret

(***************************************************************************)
(* The confidence of a result.                                             *)
(***************************************************************************)
\* C18: every result predict returns, from the whitelist test, from the mock
\* prediction or from the backend path after any of its rules, has a
\* confidence between 0 and 1, the backend's probabilities being so.
C18_ConfidenceInUnitInterval ==
    /\ Probabilities \subseteq 0..Thousandths(1)
    /\ Finished =>
           /\ result[1].confidence >= 0
           /\ result[1].confidence <= Thousandths(1)
    /\ pc \in BackendPcs \ {"score"} =>
           confidence >= 0 /\ confidence <= Thousandths(1)

\* the backend was certain of benign and the content rule kept that
\* confidence of 1.0 for its suspicious verdict
C18_Witness ==
    /\ FromBackend
    /\ env.prediction = Some(0)
    /\ result[1].verdict = "suspicious"
    /\ result[1].confidence = Thousandths(1)
    /\ Explains(result[1].top_features, "suspicious_content")

(***************************************************************************)
(* The routes.                                                             *)
(***************************************************************************)
\* C19 as stated: GET /api/v1/url/stats is answered by get_stats and never
\* handled as the lookup of the check with id "stats".
C19_StatsIsAnsweredByGetStats ==
    ( /\ call # None
      /\ call[1].fn = "dispatch"
      /\ call[1].arg.method = "GET"
      /\ call[1].arg.path = ROUTER_PREFIX \o "/stats" ) =>
        /\ call[1].ret.endpoint = "get_stats"
        /\ call[1].ret.path_params = None

\* C19, what holds instead: GET /api/v1/url/stats goes to get_check_result
\* with check_id = "stats", the route /{check_id} being registered before
\* /stats; no request at all reaches get_stats.
C19_StatsIsShadowed ==
    (call # None /\ call[1].fn = "dispatch") =>
        /\ call[1].ret.endpoint # "get_stats"
        /\ (call[1].arg.method = "GET" /\ call[1].arg.path = ROUTER_PREFIX \o "/stats") =>
               /\ call[1].ret.endpoint = "get_check_result"
               /\ call[1].ret.path_params = Some("stats")

\* GET /api/v1/url/stats was given to the lookup of a check
C19_Witness ==
    /\ call # None
    /\ call[1].fn = "dispatch"
    /\ call[1].arg.method = "GET"
    /\ call[1].arg.path = "/api/v1/url/stats"
    /\ call[1].ret.endpoint = "get_check_result"
    /\ call[1].ret.path_params = Some("stats")

(***************************************************************************)
(* The mock prediction when no backend is loaded.                          *)
(***************************************************************************)
\* C20: without a loaded backend predict never enters the backend path, and
\* its result for a URL that is not whitelisted is the mock prediction: the
\* verdict and the confidence follow from the five scored features alone,
\* the explanations are features, none is the explanation of a rule (new
\* domain, brand, DNS, content), the version ends in -mock, and the
\* diagnostics are returned as gathered, whatever they are.
C20_NoBackendNoEscalation ==
    ~BackendPresent =>
        /\ pc \notin BackendPcs \ {"score"}
        /\ ~env.raised
        /\ env.prediction = None
        /\ env.content = None
        /\ (Finished /\ ~Whitelisted) =>
               LET r == result[1]
                   risk == 2 * Indicator(features["suspicious_keywords"] > 0)
                           + Indicator(features["is_shortened"] > 0)
                           + 3 * Indicator(features["has_ip_address"] > 0)
                           + Indicator(features["url_length"] > Thousandths(75))
                           + Indicator(features["domain_dots"] > Thousandths(3))
               IN  /\ r.verdict = (IF risk >= 2 THEN "malicious"
                                   ELSE IF risk = 1 THEN "suspicious" ELSE "benign")
                   /\ r.confidence = (IF risk >= 2 THEN Min2(600 + 100 * risk, 990)
                                      ELSE IF risk = 1 THEN 650 ELSE r.confidence)
                   /\ risk = 0 => r.confidence >= 850 /\ r.confidence < 950
                   /\ r.model_version = MODEL_VERSION \o "-mock"
                   /\ r.additional_info = additional_info
                   /\ \A i \in 1..Len(r.top_features) :
                          /\ r.top_features[i].name \in FeatureNameSet
                          /\ r.top_features[i].name \notin
                                 {FiredRules(r)[k].name : k \in 1..4}

\* no backend; the domain is new, imitates paypal and does not resolve, and
\* the result is the mock's score of 2 for the keywords: malicious with 0.8,
\* not the 0.98 of the brand rule nor the 0.95 of the DNS rule
C20_Witness ==
    /\ Finished
    /\ ~BackendPresent
    /\ Get(additional_info, "dns_valid") = Some(FALSE)
    /\ Get(additional_info, "impersonated_brand") = Some("paypal")
    /\ Get(additional_info, "domain_age_days") # None
    /\ Get(additional_info, "domain_age_days")[1] < NEW_DOMAIN_DAYS
    /\ result[1].verdict = "malicious"
    /\ result[1].confidence = 800
    /\ result[1].top_features # << >>

(***************************************************************************)
(* The order of the two rules of the brand check.                          *)
(***************************************************************************)
\* brand k is matched by the domain: the domain is none of its legitimate
\* domains, and it holds the brand's name or is a typosquat of the brand
BrandMatches(domain, k) ==
    /\ ~InList(domain, TARGET_BRANDS[k].legitimate_domains)
    /\ Contains(domain, TARGET_BRANDS[k].brand) \/ TypoOfBrand(domain, k)

\* the brands whose name the domain holds
NamedBrands(domain) ==
    {k \in 1..Len(TARGET_BRANDS) : Contains(domain, TARGET_BRANDS[k].brand)}

\* the domain is a legitimate domain of some brand
IsLegitimate(domain) ==
    \E k \in 1..Len(TARGET_BRANDS) : InList(domain, TARGET_BRANDS[k].legitimate_domains)

BrandsInTitle(title) ==
    {k \in 1..Len(TARGET_BRANDS) : Contains(Lower(title), TARGET_BRANDS[k].brand)}

\* what a password field adds to the score of a page fetched from u
PasswordScore(u, fetched) ==
    IF fetched.status = 200 /\ fetched.has_password_field
    THEN (IF StartsWith(u, "https") THEN 1 ELSE 2)
    ELSE 0

\* C23 as stated: the score of a page is in 0..3, at most 2 of it for the
\* password field and at most 1 for the title, however many brands the title
\* names.
C23_ContentScoreAtMost3 ==
    (call # None /\ call[1].fn = "_analyze_content") =>
        /\ call[1].ret \in 0..3
        /\ PasswordScore(call[1].arg.url, call[1].arg.fetched) <= 2
        /\ call[1].ret - PasswordScore(call[1].arg.url, call[1].arg.fetched) <= 1

\* C23, what holds instead: the score is 0 for a failed fetch and a status
\* other than 200; otherwise it is the 0, 1 or 2 of the password field plus
\* at most one point for every brand the title names, so it lies in 0..3
\* when the title names at most one brand and can reach 2 + the number of
\* brands otherwise.
C23_ContentScorePerBrand ==
    (call # None /\ call[1].fn = "_analyze_content") =>
        LET u == call[1].arg.url
            fetched == call[1].arg.fetched
            named == IF fetched.status = 200 THEN BrandsInTitle(fetched.title) ELSE {}
        IN  /\ call[1].ret \in Nat
            /\ fetched.status # 200 => call[1].ret = 0
            /\ call[1].ret >= PasswordScore(u, fetched)
            /\ call[1].ret <= PasswordScore(u, fetched) + Cardinality(named)
            /\ Cardinality(named) <= 1 => call[1].ret \in 0..3

\* a page with a password field, fetched over http, whose title names four
\* brands, has a score of 6
C23_Witness ==
    /\ call # None
    /\ call[1].fn = "_analyze_content"
    /\ call[1].arg.url = "http://example.org/"
    /\ call[1].arg.fetched.status = 200
    /\ call[1].arg.fetched.has_password_field
    /\ Cardinality(BrandsInTitle(call[1].arg.fetched.title)) = 4
    /\ call[1].ret = 6

(***************************************************************************)
(* The features of a URL given with an enrichment record.                  *)
(***************************************************************************)
\* the enrichment record holds a usable value for the enriched feature e
SuppliesValue(enrichment_data, e) ==
    /\ Supplies(enrichment_data, e)
    /\ enrichment_data[1][e.section][1][e.field] # None

\* C24 as stated: for a string urlparse accepts, the 10 lexical features are
\* those of the URL whatever the enrichment record holds, and every enriched
\* feature with a usable value in the record has that value, whatever the
\* other sections and fields are.
C24_FeaturesDefaultIndependently ==
    (call # None /\ call[1].fn = "extract_all" /\ ~UrlparseRaises(call[1].arg.url)) =>
        LET features_of_url == extract_all(call[1].arg.url, None)
            ret == call[1].ret
        IN  /\ \A i \in 1..LexicalCount :
                   ret.features[feature_names[i]] = features_of_url[feature_names[i]]
            /\ \A i \in 1..Len(ENRICHED_FIELDS) :
                   SuppliesValue(call[1].arg.enrichment_data, ENRICHED_FIELDS[i]) =>
                       ret.features[ENRICHED_FIELDS[i].name] =
                           call[1].arg.enrichment_data[1][ENRICHED_FIELDS[i].section][1][ENRICHED_FIELDS[i].field][1]

\* C24, what holds instead: one section that is null or one field without a
\* usable value makes all 25 features 0.0, the lexical ones and the enriched
\* ones with a usable value included; the features are those of the URL and
\* of the record only when every section present is a record and every field
\* present is a number.
C24_OneUnusableValueZeroesAll ==
    (call # None /\ call[1].fn = "extract_all" /\ ~UrlparseRaises(call[1].arg.url)) =>
        LET features_of_url == extract_all(call[1].arg.url, None)
            enrichment_data == call[1].arg.enrichment_data
            ret == call[1].ret
            unusable == /\ IsEnriched(enrichment_data)
                        /\ \E i \in 1..Len(ENRICHED_FIELDS) :
                               LET e == ENRICHED_FIELDS[i]
                               IN  /\ e.section \in DOMAIN enrichment_data[1]
                                   /\ \/ enrichment_data[1][e.section] = None
                                      \/ /\ e.field \in DOMAIN enrichment_data[1][e.section][1]
                                         /\ enrichment_data[1][e.section][1][e.field] = None
        IN  IF unusable
            THEN \A name \in FeatureNameSet : ret.features[name] = 0
            ELSE /\ \A i \in 1..LexicalCount :
                        ret.features[feature_names[i]] = features_of_url[feature_names[i]]
                 /\ \A i \in 1..Len(ENRICHED_FIELDS) :
                        SuppliesValue(enrichment_data, ENRICHED_FIELDS[i]) =>
                            ret.features[ENRICHED_FIELDS[i].name] =
                                enrichment_data[1][ENRICHED_FIELDS[i].section][1][ENRICHED_FIELDS[i].field][1]

\* the record has a null whois section and a usable high_risk_country: the
\* length of the URL and high_risk_country both came back as 0.0
C24_Witness ==
    /\ call # None
    /\ call[1].fn = "extract_all"
    /\ call[1].arg.url = "http://example.org/"
    /\ IsEnriched(call[1].arg.enrichment_data)
    /\ DOMAIN call[1].arg.enrichment_data[1] = {"whois", "geo"}
    /\ call[1].arg.enrichment_data[1]["whois"] = None
    /\ call[1].ret.features["url_length"] = 0
    /\ call[1].ret.features["high_risk_country"] = 0

(***************************************************************************)
(* The address test of the feature extractor.                              *)
(***************************************************************************)
\* the host of a netloc that may be a bracketed address: what stands before
\* the port
AddressHost(netloc) ==
    IF StartsWith(netloc, "[")
    THEN SubSeq(netloc, 1, FindFirst(netloc, {"]"}, 1))
    ELSE SubSeq(netloc, 1, FindFirst(netloc, {":"}, 1) - 1)

\* the labels of a host: the texts between its dots
RECURSIVE Labels(_)
Labels(host) ==
    LET stop == FindFirst(host, {"."}, 1)
    IN  IF stop > Len(host) THEN << host >>
        ELSE << SubSeq(host, 1, stop - 1) >> \o Labels(Slice(host, stop))

\* four groups of one to three digits
IsIPv4Literal(host) ==
    /\ Len(Labels(host)) = 4
    /\ \A i \in 1..4 :
           /\ Len(Labels(host)[i]) \in 1..3
           /\ \A k \in 1..Len(Labels(host)[i]) : CharAt(Labels(host)[i], k) \in Digits

\* hexadecimal groups and colons between brackets
IsIPv6Literal(host) ==
    /\ StartsWith(host, "[") /\ EndsWith(host, "]")
    /\ Contains(host, ":")
    /\ \A k \in 2..(Len(host) - 1) : CharAt(host, k) \in HexColon

IsIPLiteral(netloc) ==
    IsIPv4Literal(AddressHost(netloc)) \/ IsIPv6Literal(AddressHost(netloc))

\* C25 as stated: has_ip_address is 1 exactly when the host is an IPv4 or
\* IPv6 literal; for a DNS name it is 0, and the mock score of a URL with
\* that host holds no 3 for an address.
C25_HasIpIffLiteral ==
    (call # None /\ call[1].fn = "_has_ip_address") =>
        /\ call[1].ret.has_ip_address = 1 <=> IsIPLiteral(call[1].arg)
        /\ ~IsIPLiteral(call[1].arg) => call[1].ret.score < 3

\* C25, what holds instead: has_ip_address is 1 exactly when the netloc
\* holds, anywhere, four dotted groups of digits or 10 characters in a row
\* that are hexadecimal digits or colons.  So an IPv4 literal gives 1, an
\* IPv6 literal gives 1 only when it is at least 10 characters long between
\* its brackets ([::1] gives 0), and a DNS name gives 1 when it has such a
\* run or such groups; the mock score then holds the 3.
C25_HasIpIsPatternSearch ==
    (call # None /\ call[1].fn = "_has_ip_address") =>
        LET d == call[1].arg
            run == \E i \in 1..Len(d) : \E j \in i..Len(d) :
                       /\ j - i + 1 >= 10
                       /\ \A k \in i..j : CharAt(d, k) \in HexColon
            groups == \E i \in 1..Len(d) : \E j \in i..Len(d) :
                          IsIPv4Literal(SubSeq(d, i, j))
        IN  /\ call[1].ret.has_ip_address = 1 <=> (run \/ groups)
            /\ call[1].ret.has_ip_address \in {0, 1}
            /\ IsIPv4Literal(AddressHost(d)) => call[1].ret.has_ip_address = 1
            /\ (IsIPv6Literal(AddressHost(d)) /\ Len(AddressHost(d)) >= 12)
                   => call[1].ret.has_ip_address = 1
            /\ call[1].ret.has_ip_address = 1 <=> call[1].ret.score >= 3

\* a DNS name whose first label is 12 hexadecimal characters was counted as
\* an address and scored 3
C25_Witness ==
    /\ call # None
    /\ call[1].fn = "_has_ip_address"
    /\ call[1].arg = "deadbeefcafe.example.com"
    /\ ~IsIPLiteral(call[1].arg)
    /\ call[1].ret.has_ip_address = 1
    /\ call[1].ret.score = 3

(***************************************************************************)
(* The second branch of the new-domain rule.                               *)
(***************************************************************************)
\* C26: the verdict the new-domain rule finds is the backend's, benign or
\* malicious and never suspicious; the step of the rule never turns a
\* verdict into malicious; and every newly_registered_domain explanation,
\* in predict's list and in any result, has contribution 0.5.
C26_NewDomainNeverMalicious ==
    /\ [](pc = "new_domain" => verdict \in {"benign", "malicious"})
    /\ [][pc = "new_domain" => (verdict' = "malicious" => verdict = "malicious")]_vars
    /\ [](\A i \in 1..Len(top_features) :
              top_features[i].name = "newly_registered_domain" =>
                  top_features[i].contribution = 500)
    /\ [](result # None =>
              \A i \in 1..Len(result[1].top_features) :
                  result[1].top_features[i].name = "newly_registered_domain" =>
                      result[1].top_features[i].contribution = 500)

\* the backend said benign for a new domain that imitates a brand: the
\* result is malicious through the brand rule, and the explanation of the
\* new-domain rule in it has contribution 0.5
C26_Witness ==
    /\ FromBackend
    /\ env.prediction = Some(0)
    /\ result[1].verdict = "malicious"
    /\ Len(result[1].top_features) >= 2
    /\ Get(result[1].additional_info, "domain_age_days") # None
    /\ result[1].top_features[2].name = "newly_registered_domain"
    /\ result[1].top_features[2] =
           [name |-> "newly_registered_domain",
            value |-> Thousandths(result[1].additional_info.domain_age_days[1]),
            contribution |-> 500]

(***************************************************************************)
(* Which explanations of the rules can stand together.                     *)
(***************************************************************************)
\* the name of an explanation of the brand rule
IsBrandExplanation(name) == StartsWith(name, "impersonates_")

\* C27: in a result of the backend path suspicious_content stands neither
\* with invalid_dns nor with an impersonates_<brand> explanation, no name
\* occurs twice, and the list has at most 8 entries.
C27_ExplanationsThatExcludeEachOther ==
    FromBackend =>
        LET tf == result[1].top_features
        IN  /\ Explains(tf, "suspicious_content") =>
                   /\ ~Explains(tf, "invalid_dns")
                   /\ \A i \in 1..Len(tf) : ~IsBrandExplanation(tf[i].name)
            /\ \A i \in 1..Len(tf) : \A j \in 1..Len(tf) :
                   tf[i].name = tf[j].name => i = j
            /\ Cardinality({i \in 1..Len(tf) : IsBrandExplanation(tf[i].name)}) <= 1
            /\ Len(tf) <= 8

\* a new domain that resolves and imitates no brand, a page with a score: the
\* explanation of the content rule, that of the new-domain rule and the five
\* of the forest
C27_Witness ==
    /\ FromBackend
    /\ Len(result[1].top_features) = 7
    /\ result[1].top_features[1].name = "suspicious_content"
    /\ result[1].top_features[2].name = "newly_registered_domain"
    /\ Get(result[1].additional_info, "dns_valid") = Some(TRUE)
    /\ Get(result[1].additional_info, "impersonated_brand") = None

(***************************************************************************)
(* The verdict and the explanations of the rules.                          *)
(***************************************************************************)
\* C28: in a result of the backend path a suspicious verdict has the
\* explanation of the content rule or of the new-domain rule first, and a
\* benign verdict has explanations of features only.
C28_VerdictAgreesWithExplanations ==
    FromBackend =>
        LET r == result[1]
        IN  /\ r.verdict = "suspicious" =>
                   /\ r.top_features # << >>
                   /\ r.top_features[1].name \in
                          {"newly_registered_domain", "suspicious_content"}
            /\ r.verdict = "benign" =>
                   \A i \in 1..Len(r.top_features) :
                       r.top_features[i].name \in FeatureNameSet
            /\ r.verdict \in {"benign", "suspicious", "malicious"}

\* a LogisticRegression said benign, the domain is new, the page has a score
\* of 1: suspicious with 0.7, explained by the content rule and then the
\* new-domain rule, and by nothing else
C28_Witness ==
    /\ FromBackend
    /\ model[1].kind = "LogisticRegression"
    /\ result[1].verdict = "suspicious"
    /\ result[1].confidence = 700
    /\ Len(result[1].top_features) = 2
    /\ result[1].top_features[1].name = "suspicious_content"
    /\ result[1].top_features[2].name = "newly_registered_domain"

(***************************************************************************)
(* The health flag and the path predict takes.                             *)
(***************************************************************************)
\* C29 as stated: once loading is over, the flag model_loaded of /health is
\* true exactly when predict scores with the backend, and a result for a
\* URL that is not whitelisted, returned while the flag is true, is the
\* backend's and not the mock's.
C29_HealthAgreesWithScoring ==
    /\ pc # "load" => (health_check.model_loaded <=> BackendPresent)
    /\ (Finished /\ ~Whitelisted /\ health_check.model_loaded) =>
           result[1].model_version = MODEL_VERSION

\* C29, what holds instead: the flag tells that the model was loaded, not
\* the scaler.  A result of the backend path implies a true flag; a true
\* flag implies the backend path only when the scaler was loaded as well and
\* the backend did not raise; with the model loaded and the scaler not, the
\* flag is true and every result is the mock's.
C29_HealthReportsModelOnly ==
    /\ BackendPresent => health_check.model_loaded
    /\ FromBackend => health_check.model_loaded
    /\ (Finished /\ ~Whitelisted /\ health_check.model_loaded) =>
           IF scaler # None /\ ~env.raised
           THEN result[1].model_version = MODEL_VERSION
           ELSE result[1].model_version = MODEL_VERSION \o "-mock"
    /\ ~ML_AVAILABLE => ~health_check.model_loaded

\* the model was loaded and the scaler was not: /health says model_loaded,
\* and the result is the mock's without the backend having been tried
C29_Witness ==
    /\ Finished
    /\ ~Whitelisted
    /\ health_check.model_loaded
    /\ scaler = None
    /\ ~env.raised
    /\ env.prediction = None
    /\ result[1].model_version = "v1.0.0-mock"

(***************************************************************************)
(* The answer of GET /{check_id}.                                          *)
(***************************************************************************)
\* C30 as stated: the verdict, the confidence and the explanations that
\* GET /{check_id} returns are those of the prediction POST /check made for
\* that check.
C30_ResultFromOneRun ==
    (response # None /\ response[1].status_code = 200
        /\ "top_features" \in DOMAIN response[1].body) =>
        LET prediction == predictions[response[1].body.check_id]
        IN  /\ response[1].body.verdict = prediction.verdict
            /\ response[1].body.confidence = prediction.confidence
            /\ response[1].body.top_features = prediction.top_features

\* C30, what holds instead: the verdict, the confidence and the version
\* returned are those of the prediction POST /check made; the explanations
\* are those of a second prediction, made for the same normalised URL when
\* the GET is served, with the diagnostics and the backend's answer of that
\* moment.
C30_ResultMixesTwoRuns ==
    /\ [](response # None /\ response[1].status_code = 200
             /\ "top_features" \in DOMAIN response[1].body =>
             LET prediction == predictions[response[1].body.check_id]
             IN  /\ response[1].body.verdict = prediction.verdict
                 /\ response[1].body.confidence = prediction.confidence
                 /\ response[1].body.model_version = prediction.model_version)
    /\ [][(request # None /\ request[1].handler = "get_check_result" /\ request' = None) =>
              /\ url = url_checks[request[1].check_id].normalized_url
              /\ response'[1].body.top_features = result[1].top_features]_vars

\* the check was stored as benign while the domain resolved; at the GET it
\* no longer resolves, and the answer is benign, explained by invalid_dns
C30_Witness ==
    /\ response # None
    /\ response[1].status_code = 200
    /\ "top_features" \in DOMAIN response[1].body
    /\ response[1].body.verdict = "benign"
    /\ response[1].body.top_features # << >>
    /\ response[1].body.top_features[1].name = "invalid_dns"
    /\ ~Explains(predictions[response[1].body.check_id].top_features, "invalid_dns")

=============================================================================
